---------------------------- MODULE Spec2Model ----------------------------
(***************************************************************************)
(* Thumbnail resolution and caching pipeline of better-bookmarks.          *)
(*                                                                         *)
(*   cacheService.ts          two-tier TTL cache (memory map, localStorage) *)
(*   utils/security.ts        RateLimiter, validateUrl                      *)
(*   thumbnailService.ts      render service client and fallback chain      *)
(*   enhancedThumbnailService access guard, dedup, upload, regenerate,      *)
(*                            access statistics, cleanup                    *)
(*   bookmarkService          bookmark list cache, create and delete        *)
(*                                                                         *)
(* The clock (Date.now()) is counted in seconds: every duration of the     *)
(* code is a whole number of seconds, written below in milliseconds as in  *)
(* the source and converted by Ms.  An async method is one action per      *)
(* stretch between two awaits that touch shared state; a step's network    *)
(* outcome is chosen by the environment.                                   *)
(***************************************************************************)
EXTENDS Integers, Sequences, FiniteSets, TLC

VARIABLES
    now,          \* Date.now(), in seconds
    ticks,        \* number of clock advances so far
    attempts,     \* RateLimiter.attempts: key -> sequence of timestamps
    rateLog,      \* history: key -> sequence of [t, ok] of the isAllowed calls
    memoryCache,  \* per browser session: CacheService.memoryCache
    localStorage, \* per browser session: window.localStorage
    written,      \* history: <<tier, key>> -> the last write not yet removed
    ret,          \* the outcome of the call that has just returned
    bookmarks,    \* Firestore collection 'bookmarks': id -> document
    metadata,     \* Firestore collection 'thumbnail_metadata': id -> document
    blobs,        \* Firebase Storage: path -> object
    procs,        \* the async calls in flight: their position and locals
    ops,          \* number of calls started so far
    renderCalls,  \* number of POST /api/v1/screenshot requests sent so far
    statsWrites,  \* history: the access-stats writes, in order
    docSeq,       \* number of documents Firestore has given an id so far
    deleted       \* history: the thumbnail records cleanup has deleted

vars == <<now, ticks, attempts, rateLog, memoryCache, localStorage, written,
          ret, bookmarks, metadata, blobs, procs, ops, renderCalls, statsWrites,
          docSeq, deleted>>

-----------------------------------------------------------------------------
(* Bounds of the model *)

MaxTicks == 3
MaxCalls == 12
MaxCacheCalls == 3
MaxJumps == 1
MaxOps == 3

(* Durations: the source writes milliseconds, the model clock counts seconds *)
Ms(n) == n \div 1000
DAY == Ms(24 * 60 * 60 * 1000)
Epoch == 19000 * DAY

Users == {"alice", "bob"}

-----------------------------------------------------------------------------
(* Values *)

Null == [tag |-> "null"]
Num(n) == [tag |-> "number", n |-> n]
List(items, dates) == [tag |-> "list", items |-> items, dates |-> dates]
Tags(items) == [tag |-> "tags", items |-> items]
Thumb(rec) == [tag |-> "thumbnail", rec |-> rec]

\* JSON.parse(JSON.stringify(data)): a Date comes back as an ISO string.
JsonRoundTrip(data) ==
    IF data.tag = "list" THEN List(data.items, "string") ELSE data

Restrict(f, S) == [k \in S |-> f[k]]
Put(f, k, v) == [x \in DOMAIN f \cup {k} |-> IF x = k THEN v ELSE f[x]]
Drop(f, k) == Restrict(f, DOMAIN f \ {k})

-----------------------------------------------------------------------------
(* cacheService.ts *)

DEFAULT_TTL == Ms(5 * 60 * 1000)
MAX_MEMORY_SIZE == 100

CacheEntry(data, ttl, t) == [data |-> data, timestamp |-> t, expires |-> t + ttl]

ExpiredSinceWrite(entry, t) == t > entry.timestamp
Expired(entry, t) == t > entry.expires

cleanupMemoryCache(mc, t) ==
    Restrict(mc, {k \in DOMAIN mc : ~Expired(mc[k], t)})

setMemoryDropped(mc, key, data, ttl, t) == mc
setMemory(mc, key, data, ttl, t) ==
    LET kept == IF Cardinality(DOMAIN mc) >= MAX_MEMORY_SIZE
                THEN cleanupMemoryCache(mc, t) ELSE mc
    IN  Put(kept, key, CacheEntry(data, ttl, t))

\* getMemory returns the data and deletes an expired entry: the two results.
getMemoryData(mc, key, t) ==
    IF key \notin DOMAIN mc \/ Expired(mc[key], t) THEN Null ELSE mc[key].data

getMemoryCache(mc, key, t) ==
    IF key \in DOMAIN mc /\ Expired(mc[key], t) THEN Drop(mc, key) ELSE mc

LocalKey(key) == "cache_" \o key
JsonText(entry) == [text |-> "json", entry |-> entry]
Garbage == [text |-> "garbage"]

\* quotaOk: whether localStorage.setItem succeeds (it throws when the quota is full)
setLocalLossy(ls, key, data, ttl, t, quotaOk) ==
    IF quotaOk
    THEN Put(ls, LocalKey(key), JsonText(CacheEntry(JsonRoundTrip(data), ttl, t)))
    ELSE Drop(ls, LocalKey(key))
setLocalNever(ls, key, data, ttl, t, quotaOk) == ls
setLocal(ls, key, data, ttl, t, quotaOk) ==
    IF quotaOk
    THEN Put(ls, LocalKey(key), JsonText(CacheEntry(JsonRoundTrip(data), ttl, t)))
    ELSE ls

LocalParses(ls, key) ==
    LocalKey(key) \in DOMAIN ls /\ ls[LocalKey(key)].text = "json"

getLocalData(ls, key, t) ==
    IF ~LocalParses(ls, key) \/ Expired(ls[LocalKey(key)].entry, t)
    THEN Null
    ELSE ls[LocalKey(key)].entry.data

getLocalStore(ls, key, t) ==
    IF LocalParses(ls, key) /\ Expired(ls[LocalKey(key)].entry, t)
    THEN Drop(ls, LocalKey(key))
    ELSE ls

removeMemory(mc, key) == Drop(mc, key)
removeLocal(ls, key) == Drop(ls, LocalKey(key))

-----------------------------------------------------------------------------
(* utils/security.ts: RateLimiter *)

DEFAULT_MAX_ATTEMPTS == 5
CREATE_MAX_ATTEMPTS == 10
DEFAULT_WINDOW == Ms(60000)
CREATE_WINDOW == Ms(60000)

KeyAttempts(att, key) == IF key \in DOMAIN att THEN att[key] ELSE <<>>

RecentAttempts(att, key, windowMs, t) ==
    LET windowStart == t - windowMs
        Recent(time) == time > windowStart
    IN  SelectSeq(KeyAttempts(att, key), Recent)

LimitExceededOff(recent, maxAttempts) == Len(recent) > maxAttempts
LimitExceeded(recent, maxAttempts) == Len(recent) >= maxAttempts

isAllowed(att, key, maxAttempts, windowMs, t) ==
    ~LimitExceeded(RecentAttempts(att, key, windowMs, t), maxAttempts)

\* an isAllowed that records the denied call as well
isAllowedAttemptsAlways(att, key, maxAttempts, windowMs, t) ==
    Put(att, key, Append(RecentAttempts(att, key, windowMs, t), t))

\* the attempts map after isAllowed: a denied call returns before the set
isAllowedAttempts(att, key, maxAttempts, windowMs, t) ==
    IF isAllowed(att, key, maxAttempts, windowMs, t)
    THEN Put(att, key, Append(RecentAttempts(att, key, windowMs, t), t))
    ELSE att


-----------------------------------------------------------------------------
(* The initial state: a session that has just started *)

Urls == {"https://a.example/", "https://www.twitch.tv/somechannel",
         "https://www.youtube.com/watch?v=abc123"}

\* A thumbnail string: a data: URL, an http(s) URL, or undefined
NoThumbnail == [scheme |-> "none", ref |-> ""]
Https(ref) == [scheme |-> "https", ref |-> ref]
DataUrl(ref) == [scheme |-> "data", ref |-> ref]

\* ThumbnailResult
TResult(thumbnail, type, source, method) ==
    [thumbnail |-> thumbnail, type |-> type, source |-> source, method |-> method]

NoResult == TResult(NoThumbnail, "none", "none", "none")

\* An async call: where it stands (pc) and its locals.  tiers, renders,
\* uploads, had, seen, owned and added are history: the ids of the thumbnail
\* records the call has added, the tiers the fallback chain has
\* attempted, the render requests and uploads the call has made, the blob
\* references recorded under the URL's hash when its dedup lookup ran and
\* those of the records the lookup returned, and whether the caller owned a
\* bookmark for the URL when the call started.
Idle ==
    [pc |-> "idle", op |-> "none", user |-> "", url |-> "", skip |-> FALSE,
     tiers |-> <<>>, chain |-> NoResult, existing |-> Null, t0 |-> 0, key |-> "",
     storageUrl |-> NoThumbnail, snapshot |-> {}, renders |-> 0, uploads |-> 0,
     thumbnailData |-> NoResult, had |-> {}, seen |-> {}, owned |-> FALSE,
     added |-> {}, id |-> ""]

Procs == {1, 2}

EmptyMap == [k \in {} |-> Null]

\* The bookmark made before the run starts: one of bob's, whose thumbnail
\* resolution found the favicon.
InitialBookmarks ==
    [k \in {"doc0"} |->
        [userId |-> "bob", url |-> "https://a.example/", tags |-> {"news"},
         thumbnail |-> Https("https://www.google.com/s2/favicons?domain=a.example&sz=64")]]

NoCall == [op |-> "none"]

Init ==
    /\ now = Epoch
    /\ ticks = 0
    /\ attempts = EmptyMap
    /\ rateLog = EmptyMap
    /\ memoryCache = [u \in Users |-> EmptyMap]
    /\ localStorage = [u \in Users |-> EmptyMap]
    /\ written = EmptyMap
    /\ ret = NoCall
    /\ bookmarks = InitialBookmarks
    /\ metadata = EmptyMap
    /\ blobs = EmptyMap
    /\ procs = [p \in Procs |-> Idle]
    /\ ops = 0
    /\ renderCalls = 0
    /\ statsWrites = <<>>
    /\ docSeq = 0
    /\ deleted = {}

-----------------------------------------------------------------------------
(* The rate limiter on its own: isAllowed called with its default limits,   *)
(* and createBookmark calls that end before their first await.              *)

RateSteps == {Ms(30000)}
RateKeys == {"login"}

RateTotal ==
    LET n(k) == IF k \in DOMAIN rateLog THEN Len(rateLog[k]) ELSE 0
    IN  n("login") + n("bookmark-create-alice")

Logged(k, ok) ==
    Put(rateLog, k, Append(IF k \in DOMAIN rateLog THEN rateLog[k] ELSE <<>>,
                           [t |-> now, ok |-> ok]))

RateFrame == UNCHANGED <<memoryCache, localStorage, written, bookmarks, metadata,
                         blobs, procs, ops, renderCalls, statsWrites, docSeq, deleted>>

RateTick(d) ==
    /\ ticks < MaxTicks
    /\ now' = now + d
    /\ ticks' = ticks + 1
    /\ UNCHANGED <<attempts, rateLog, ret>>
    /\ RateFrame

\* rateLimiter.isAllowed(key): the defaults, 5 attempts per 60000 ms
IsAllowedCall(key) ==
    /\ RateTotal < MaxCalls
    /\ LET ok == isAllowed(attempts, key, DEFAULT_MAX_ATTEMPTS, DEFAULT_WINDOW, now)
       IN  /\ attempts' = isAllowedAttempts(attempts, key, DEFAULT_MAX_ATTEMPTS,
                                            DEFAULT_WINDOW, now)
           /\ rateLog' = Logged(key, ok)
           /\ ret' = [op |-> "isAllowed", key |-> key, value |-> ok]
    /\ UNCHANGED <<now, ticks>>
    /\ RateFrame

\* rateLimiter.reset(key)
ResetCall(key) ==
    /\ key \in DOMAIN attempts
    /\ attempts' = Drop(attempts, key)
    /\ rateLog' = Drop(rateLog, key)
    /\ ret' = [op |-> "reset", key |-> key, value |-> TRUE]
    /\ UNCHANGED <<now, ticks>>
    /\ RateFrame

\* validateUrl on what the form holds
InvalidFormUrls == {"", "nodomain"}

validateUrl(formUrl) ==
    IF formUrl \in InvalidFormUrls
    THEN [isValid |-> FALSE, sanitizedUrl |-> ""]
    ELSE [isValid |-> TRUE, sanitizedUrl |-> formUrl]

CreateKey(u) == "bookmark-create-" \o u

\* createBookmark that throws before its first await: the limiter denies the
\* call, or it passes the limiter and the form's URL is invalid.
CreateBookmarkThrows(u, formUrl) ==
    /\ RateTotal < MaxCalls
    /\ LET ok == isAllowed(attempts, CreateKey(u), CREATE_MAX_ATTEMPTS, CREATE_WINDOW, now)
       IN  /\ ~ok \/ ~validateUrl(formUrl).isValid
           /\ attempts' = isAllowedAttempts(attempts, CreateKey(u), CREATE_MAX_ATTEMPTS,
                                            CREATE_WINDOW, now)
           /\ rateLog' = Logged(CreateKey(u), ok)
           /\ ret' = [op |-> "createBookmark", key |-> CreateKey(u),
                      value |-> IF ok THEN "InvalidUrl" ELSE "RateLimited"]
    /\ UNCHANGED <<now, ticks>>
    /\ RateFrame

NextRate ==
    \/ \E d \in RateSteps : RateTick(d)
    \/ \E k \in RateKeys : IsAllowedCall(k)
    \/ \E k \in RateKeys : ResetCall(k)
    \/ \E f \in InvalidFormUrls : CreateBookmarkThrows("alice", f)

SpecRate == Init /\ [][NextRate]_vars


(* Claim C7: for one key, starting from empty history, a call is allowed    *)
(* exactly when fewer than maxAttempts allowed calls lie inside the window  *)
(* that ends at it: the first maxAttempts calls pass, the next call inside  *)
(* the window of the first is denied, a call made once windowMs has elapsed *)
(* since every earlier call passes again; and createBookmark (10 per 60 s,  *)
(* key per user) throws the rate-limit error exactly on a denied call.      *)
LimitOf(k) == IF k \in RateKeys THEN DEFAULT_MAX_ATTEMPTS ELSE CREATE_MAX_ATTEMPTS
WindowOf(k) == IF k \in RateKeys THEN DEFAULT_WINDOW ELSE CREATE_WINDOW

C7_SlidingWindow ==
    /\ \A k \in DOMAIN rateLog :
         LET log == rateLog[k]
             InWindow(i) == {j \in 1..(i - 1) : log[j].ok /\ log[j].t > log[i].t - WindowOf(k)}
         IN  \A i \in 1..Len(log) :
               /\ log[i].ok <=> Cardinality(InWindow(i)) < LimitOf(k)
               /\ i <= LimitOf(k) => log[i].ok
               /\ (i = LimitOf(k) + 1 /\ log[i].t < log[1].t + WindowOf(k)) => ~log[i].ok
               /\ (\A j \in 1..(i - 1) : log[j].t + WindowOf(k) <= log[i].t) => log[i].ok
    /\ ret.op = "createBookmark" =>
         /\ ret.key \in DOMAIN rateLog
         /\ ret.value = "RateLimited" <=> ~rateLog[ret.key][Len(rateLog[ret.key])].ok

\* the 11th createBookmark of a minute was denied, and a later one passed
C7_Witness ==
    /\ CreateKey("alice") \in DOMAIN rateLog
    /\ LET log == rateLog[CreateKey("alice")]
       IN  /\ Len(log) >= CREATE_MAX_ATTEMPTS + 2
           /\ ~log[CREATE_MAX_ATTEMPTS + 1].ok
           /\ log[CREATE_MAX_ATTEMPTS + 1].t < log[1].t + CREATE_WINDOW
           /\ log[Len(log)].ok

-----------------------------------------------------------------------------
(* The cache on its own: the calls of CacheService made directly, in the    *)
(* session of one user.                                                     *)

CacheSteps == {Ms(60000), DEFAULT_TTL}
CacheKeys == {"k1", "k2"}
CacheTtls == {DEFAULT_TTL}
CacheData == {Num(7), List({"x"}, "Date")}
CacheUser == "alice"

CacheFrame == UNCHANGED <<attempts, rateLog, bookmarks, metadata, blobs, procs,
                          renderCalls, statsWrites, docSeq, deleted>>

\* a call is counted in ops and leaves its outcome in ret; failed: whether
\* localStorage threw during the call
Called(op, key, value, failed) ==
    /\ ops < MaxCacheCalls
    /\ ops' = ops + 1
    /\ ret' = [op |-> op, key |-> key, value |-> value, at |-> now, failed |-> failed]

CacheTick(d) ==
    /\ ticks < MaxTicks
    /\ now' = now + d
    /\ ticks' = ticks + 1
    /\ UNCHANGED <<memoryCache, localStorage, written, ret, ops>>
    /\ CacheFrame

SetMemoryCall(key, data, ttl) ==
    /\ memoryCache' = [memoryCache EXCEPT ![CacheUser] = setMemory(@, key, data, ttl, now)]
    /\ written' = Put(written, <<"memory", key>>, [t |-> now, ttl |-> ttl, data |-> data])
    /\ Called("setMemory", key, Null, FALSE)
    /\ UNCHANGED <<now, ticks, localStorage>>
    /\ CacheFrame

GetMemoryCall(key) ==
    /\ Called("getMemory", key, getMemoryData(memoryCache[CacheUser], key, now), FALSE)
    /\ memoryCache' = [memoryCache EXCEPT ![CacheUser] = getMemoryCache(@, key, now)]
    /\ UNCHANGED <<now, ticks, localStorage, written>>
    /\ CacheFrame

SetLocalCall(key, data, ttl, quotaOk) ==
    /\ localStorage' = [localStorage EXCEPT ![CacheUser] = setLocal(@, key, data, ttl, now, quotaOk)]
    /\ written' = IF quotaOk
                  THEN Put(written, <<"local", key>>, [t |-> now, ttl |-> ttl, data |-> data])
                  ELSE written
    /\ Called("setLocal", key, Null, ~quotaOk)
    /\ UNCHANGED <<now, ticks, memoryCache>>
    /\ CacheFrame

\* JSON.parse throws on an item that is no JSON
GetLocalCall(key) ==
    /\ Called("getLocal", key, getLocalData(localStorage[CacheUser], key, now),
              /\ LocalKey(key) \in DOMAIN localStorage[CacheUser]
              /\ ~LocalParses(localStorage[CacheUser], key))
    /\ localStorage' = [localStorage EXCEPT ![CacheUser] = getLocalStore(@, key, now)]
    /\ UNCHANGED <<now, ticks, memoryCache, written>>
    /\ CacheFrame

\* storageOk: whether localStorage can be reached (removeItem and Object.keys
\* throw when it cannot); the memory map is emptied before the try
RemoveCall(key, storageOk) ==
    /\ memoryCache' = [memoryCache EXCEPT ![CacheUser] = removeMemory(@, key)]
    /\ localStorage' = IF storageOk
                       THEN [localStorage EXCEPT ![CacheUser] = removeLocal(@, key)]
                       ELSE localStorage
    /\ written' = Restrict(written, DOMAIN written \
                               ({<<"memory", key>>} \cup
                                (IF storageOk THEN {<<"local", key>>} ELSE {})))
    /\ Called("remove", key, Null, ~storageOk)
    /\ UNCHANGED <<now, ticks>>
    /\ CacheFrame

\* clear(): the memory map, and every localStorage key that starts with cache_
ClearCall(storageOk) ==
    /\ memoryCache' = [memoryCache EXCEPT ![CacheUser] = EmptyMap]
    /\ localStorage' = IF storageOk
                       THEN [localStorage EXCEPT ![CacheUser] =
                               Restrict(@, DOMAIN @ \ {LocalKey(k) : k \in CacheKeys})]
                       ELSE localStorage
    /\ written' = IF storageOk THEN EmptyMap
                  ELSE Restrict(written, {w \in DOMAIN written : w[1] = "local"})
    /\ Called("clear", "", Null, ~storageOk)
    /\ UNCHANGED <<now, ticks>>
    /\ CacheFrame

\* another script of the page leaves text under a cache_ key that is no JSON
CorruptLocal(key) ==
    /\ LocalKey(key) \in DOMAIN localStorage[CacheUser]
    /\ localStorage' = [localStorage EXCEPT ![CacheUser] = Put(@, LocalKey(key), Garbage)]
    /\ written' = Restrict(written, DOMAIN written \ {<<"local", key>>})
    /\ ret' = NoCall
    /\ UNCHANGED <<now, ticks, memoryCache, ops>>
    /\ CacheFrame

NextCache ==
    \/ \E d \in CacheSteps : CacheTick(d)
    \/ \E k \in CacheKeys, v \in CacheData, d \in CacheTtls : SetMemoryCall(k, v, d)
    \/ \E k \in CacheKeys : GetMemoryCall(k)
    \/ \E k \in CacheKeys, v \in CacheData, d \in CacheTtls, q \in BOOLEAN :
         SetLocalCall(k, v, d, q)
    \/ \E k \in CacheKeys : GetLocalCall(k)
    \/ \E k \in CacheKeys, storageOk \in BOOLEAN : RemoveCall(k, storageOk)
    \/ \E storageOk \in BOOLEAN : ClearCall(storageOk)
    \/ \E k \in CacheKeys : CorruptLocal(k)

SpecCache == Init /\ [][NextCache]_vars

(* Claim C8: in both tiers, a get made before writeTime + ttl of the entry  *)
(* last written under the key (and not removed since) returns that entry's  *)
(* data (as JSON gives it back, in the persistent tier) and keeps the       *)
(* entry; a get made after writeTime + ttl returns absent and leaves the    *)
(* tier without the key.                                                    *)
TierHas(tier, key) ==
    IF tier = "memory"
    THEN key \in DOMAIN memoryCache[CacheUser]
    ELSE LocalKey(key) \in DOMAIN localStorage[CacheUser]

TierOfGet == IF ret.op = "getMemory" THEN "memory" ELSE "local"

C8_CacheTtl ==
    (ret.op \in {"getMemory", "getLocal"} /\ <<TierOfGet, ret.key>> \in DOMAIN written) =>
        LET w == written[<<TierOfGet, ret.key>>]
            stored == IF TierOfGet = "local" THEN JsonRoundTrip(w.data) ELSE w.data
        IN  /\ ret.at < w.t + w.ttl => (ret.value = stored /\ TierHas(TierOfGet, ret.key))
            /\ ret.at > w.t + w.ttl => (ret.value = Null /\ ~TierHas(TierOfGet, ret.key))

\* a get in each tier found an entry past its expiry, after time had passed
C8_Witness ==
    /\ ret.op = "getLocal"
    /\ <<"local", ret.key>> \in DOMAIN written
    /\ ret.at > written[<<"local", ret.key>>].t + written[<<"local", ret.key>>].ttl
    /\ ret.value = Null
    /\ \E k \in CacheKeys :
         /\ <<"memory", k>> \in DOMAIN written
         /\ now < written[<<"memory", k>>].t + written[<<"memory", k>>].ttl
         /\ now > written[<<"memory", k>>].t
         /\ TierHas("memory", k)


-----------------------------------------------------------------------------
(* thumbnailService.ts: what the URL patterns give for the URLs of the model *)

\* new URL(url).hostname
Hostname(url) ==
    CASE url = "https://www.twitch.tv/somechannel" -> "www.twitch.tv"
      [] url = "https://www.youtube.com/watch?v=abc123" -> "www.youtube.com"
      [] OTHER -> "a.example"

IsTwitchDomain(url) == Hostname(url) = "www.twitch.tv"

extractTwitchChannel(url) == IF IsTwitchDomain(url) THEN "somechannel" ELSE ""

\* extractVideoThumbnail: a direct thumbnail for YouTube, Vimeo and Dailymotion
\* URLs; for Twitch only the platform, for other hosts nothing.
extractVideoThumbnail(url) ==
    IF Hostname(url) = "www.youtube.com"
    THEN [thumbnail |-> Https("https://img.youtube.com/vi/abc123/maxresdefault.jpg"),
          platform |-> "youtube"]
    ELSE [thumbnail |-> NoThumbnail,
          platform |-> IF IsTwitchDomain(url) THEN "twitch" ELSE ""]

getFaviconUrl(url) ==
    Https("https://www.google.com/s2/favicons?domain=" \o Hostname(url) \o "&sz=64")

\* The answers of the render service: an error, a JSON body with a hosted
\* thumbnail URL, or image bytes; each either flagged as video thumbnail or not.
RenderOutcomes == {"fail", "json-screenshot", "json-video", "image-screenshot", "image-video"}

\* takeScreenshot's result for the n-th render request
takeScreenshot(outcome, n) ==
    CASE outcome = "json-screenshot" ->
           TResult(Https("https://render.example/hosted/" \o ToString(n)),
                   "screenshot", "api-json", "api")
      [] outcome = "json-video" ->
           TResult(Https("https://render.example/video/" \o ToString(n)),
                   "video", "api-json", "api")
      [] outcome = "image-screenshot" ->
           TResult(DataUrl("shot" \o ToString(n)), "screenshot", "api-screenshot", "screenshot")
      [] outcome = "image-video" ->
           TResult(DataUrl("shot" \o ToString(n)), "video", "api-screenshot", "video-detected")
      [] OTHER -> NoResult

(* The fallback chain of ThumbnailService.generateThumbnail, as steps on a  *)
(* call's record: the call is at pc "render", "twitch", "platform" or       *)
(* "favicon" while it awaits that tier's network answer, and at "chained"   *)
(* when the chain has returned its result in the field chain.               *)

Chained(pr, result) == [pr EXCEPT !.pc = "chained", !.chain = result]

Attempt(pr, tier) == [pr EXCEPT !.pc = tier, !.tiers = Append(@, tier)]

\* step 4, the favicon: getFaviconUrl is never empty for a parsable URL
FaviconTier(pr) == Attempt(pr, "favicon")

\* step 3, the platform extractor: no network call when it finds no thumbnail
PlatformTier(pr) ==
    IF extractVideoThumbnail(pr.url).thumbnail.scheme # "none"
    THEN Attempt(pr, "platform")
    ELSE FaviconTier([pr EXCEPT !.tiers = Append(@, "platform")])

\* step 2, the live-stream profile lookup: for Twitch URLs with a channel only
TwitchTier(pr) ==
    IF IsTwitchDomain(pr.url) /\ extractTwitchChannel(pr.url) # ""
    THEN Attempt(pr, "twitch")
    ELSE PlatformTier(pr)

\* The call of generateThumbnail: step 1, the render request, is sent
ChainCall(pr) == Attempt(pr, "render")

\* the render service has answered the n-th request
RenderStep(pr, outcome, n) ==
    LET sent == [pr EXCEPT !.renders = @ + 1]
    IN  IF outcome # "fail"
        THEN Chained(sent, takeScreenshot(outcome, n))
        ELSE TwitchTier(sent)

\* getTwitchProfilePicture has returned: a validated picture URL, or null
TwitchStep(pr, found) ==
    IF found
    THEN Chained(pr, TResult(Https("https://static-cdn.jtvnw.net/jtv_user_pictures/"
                                   \o extractTwitchChannel(pr.url)
                                   \o "-profile_image-300x300.png"),
                             "video", "twitch-profile", "profile-picture"))
    ELSE PlatformTier(pr)

\* validateImageUrl of the platform's thumbnail has returned
PlatformStepThenFavicon(pr, isValid) ==
    IF isValid
    THEN Chained(Attempt(pr, "favicon"),
                 TResult(extractVideoThumbnail(pr.url).thumbnail, "video",
                         extractVideoThumbnail(pr.url).platform, "none"))
    ELSE Attempt(pr, "favicon")
PlatformStep(pr, isValid) ==
    IF isValid
    THEN Chained(pr, TResult(extractVideoThumbnail(pr.url).thumbnail, "video",
                             extractVideoThumbnail(pr.url).platform, "none"))
    ELSE FaviconTier(pr)

\* validateImageUrl of the favicon has returned; step 5 is the empty result
FaviconStep(pr, isValid) ==
    IF isValid
    THEN Chained(pr, TResult(getFaviconUrl(pr.url), "favicon", "google-favicon", "none"))
    ELSE Chained([pr EXCEPT !.tiers = Append(@, "none")],
                 TResult(NoThumbnail, "favicon", "none", "none"))

\* The network answers one run of the chain may get
ChainAnswers == [render : RenderOutcomes, twitch : BOOLEAN, platform : BOOLEAN,
                 favicon : BOOLEAN]

\* Answers are drawn for the requests the chain sends; the others stay FALSE
Asked(url, a) ==
    /\ a.twitch => a.render = "fail" /\ IsTwitchDomain(url)
    /\ a.platform => /\ a.render = "fail" /\ ~a.twitch
                     /\ extractVideoThumbnail(url).thumbnail.scheme # "none"
    /\ a.favicon => a.render = "fail" /\ ~a.twitch /\ ~a.platform

\* The whole chain, from the call to its return, under the answers a
RunChain(pr, a, n) ==
    LET s1 == RenderStep(ChainCall(pr), a.render, n)
        s2 == IF s1.pc = "twitch" THEN TwitchStep(s1, a.twitch) ELSE s1
        s3 == IF s2.pc = "platform" THEN PlatformStep(s2, a.platform) ELSE s2
    IN  IF s3.pc = "favicon" THEN FaviconStep(s3, a.favicon) ELSE s3

-----------------------------------------------------------------------------
(* The fallback chain on its own: thumbnailService.generateThumbnail called *)
(* directly, one action per await, two calls at a time.                     *)

ChainFrame == UNCHANGED <<now, ticks, attempts, rateLog, memoryCache, localStorage,
                          written, bookmarks, metadata, blobs, statsWrites, docSeq,
                          deleted>>

\* generateUrlHash: the hex SHA-256 digest of the URL, one digest per URL
generateUrlHash(url) == "sha256-" \o Hostname(url)

OwnsBookmark(u, url) ==
    \E id \in DOMAIN bookmarks : bookmarks[id].userId = u /\ bookmarks[id].url = url

\* the blob references of the records under the URL's hash
Recorded(url) ==
    {metadata[id].storageUrl :
        id \in {i \in DOMAIN metadata : metadata[i].urlHash = generateUrlHash(url)}}

\* A call starts in the lowest free slot
CanStart(p) ==
    /\ ops < MaxOps
    /\ procs[p].pc = "idle"
    /\ \A q \in Procs : q < p => procs[q].pc # "idle"

Call(op, u, url, skip) ==
    [Idle EXCEPT !.op = op, !.user = u, !.url = url, !.skip = skip,
                 !.owned = OwnsBookmark(u, url)]

ChainStart(p, url) ==
    /\ CanStart(p)
    /\ procs' = [procs EXCEPT ![p] = ChainCall(Call("chain", "", url, FALSE))]
    /\ ops' = ops + 1
    /\ UNCHANGED renderCalls /\ ret' = NoCall
    /\ ChainFrame

\* step 1: POST /api/v1/screenshot has answered
ChainRender(p, outcome) ==
    /\ procs[p].pc = "render"
    /\ renderCalls' = renderCalls + 1
    /\ procs' = [procs EXCEPT ![p] = RenderStep(@, outcome, renderCalls + 1)]
    /\ UNCHANGED ops /\ ret' = NoCall
    /\ ChainFrame

ChainTwitch(p, found) ==
    /\ procs[p].pc = "twitch"
    /\ procs' = [procs EXCEPT ![p] = TwitchStep(@, found)]
    /\ UNCHANGED <<ops, renderCalls>> /\ ret' = NoCall
    /\ ChainFrame

ChainPlatform(p, isValid) ==
    /\ procs[p].pc = "platform"
    /\ procs' = [procs EXCEPT ![p] = PlatformStep(@, isValid)]
    /\ UNCHANGED <<ops, renderCalls>> /\ ret' = NoCall
    /\ ChainFrame

ChainFavicon(p, isValid) ==
    /\ procs[p].pc = "favicon"
    /\ procs' = [procs EXCEPT ![p] = FaviconStep(@, isValid)]
    /\ UNCHANGED <<ops, renderCalls>> /\ ret' = NoCall
    /\ ChainFrame

\* the promise resolves with the chain's result
ChainReturn(p) ==
    /\ procs[p].pc = "chained"
    /\ ret' = [op |-> "chain", url |-> procs[p].url, result |-> procs[p].chain,
               tiers |-> procs[p].tiers]
    /\ procs' = [procs EXCEPT ![p] = Idle]
    /\ UNCHANGED <<ops, renderCalls>>
    /\ ChainFrame

NextChain ==
    \/ \E p \in Procs, url \in Urls : ChainStart(p, url)
    \/ \E p \in Procs, o \in RenderOutcomes : ChainRender(p, o)
    \/ \E p \in Procs, found \in BOOLEAN : ChainTwitch(p, found)
    \/ \E p \in Procs, isValid \in BOOLEAN : ChainPlatform(p, isValid)
    \/ \E p \in Procs, isValid \in BOOLEAN : ChainFavicon(p, isValid)
    \/ \E p \in Procs : ChainReturn(p)

SpecChain == Init /\ [][NextChain]_vars

\* The tier after tier t in the fallback order, for the URL
TierAfter(t, url) ==
    CASE t = "render" -> IF IsTwitchDomain(url) THEN "twitch" ELSE "platform"
      [] t = "twitch" -> "platform"
      [] t = "platform" -> "favicon"
      [] OTHER -> "none"

\* The tier a result comes from
TierOf(result) ==
    CASE result.source \in {"api-json", "api-screenshot"} -> "render"
      [] result.source = "twitch-profile" -> "twitch"
      [] result.source = "google-favicon" -> "favicon"
      [] result.source = "none" -> "none"
      [] OTHER -> "platform"

InOrder(tiers, url) ==
    /\ tiers # <<>> => tiers[1] = "render"
    /\ \A i \in 1..(Len(tiers) - 1) : tiers[i + 1] = TierAfter(tiers[i], url)

-----------------------------------------------------------------------------
(* enhancedThumbnailService: keys, documents and the access guard *)

\* regenerateThumbnail's `${urlHash}_${Date.now()}_${Math.random()...}`
uniqueHashSame(urlHash, t, r) == urlHash
uniqueHash(urlHash, t, r) == urlHash \o "_" \o ToString(t) \o "_" \o r

\* What Math.random().toString(36).substring(7) may give
RandomSuffixes == {"k3x", "q9z"}

StoragePath(urlHash) == "thumbnails/" \o urlHash \o ".jpg"

\* getDownloadURL: the URL of the object now at the path, with the
\* object's download token
getDownloadURL(path, object) ==
    Https("https://storage.example/" \o path \o "?token=" \o object.image.ref)

BookmarksKey(u) == "user_bookmarks_" \o u
TagsKey(u) == "user_tags_" \o u
MetadataKey(urlHash) == "thumbnail_metadata_" \o urlHash
AccessKey(id) == "thumbnail_access_" \o id
ThumbKey(url) == "thumbnail_" \o url

CACHE_TTL == Ms(5 * 60 * 1000)
NEGATIVE_TTL == Ms(5 * 60 * 1000)
METADATA_TTL == Ms(30 * 60 * 1000)
ACCESS_COOLDOWN == Ms(24 * 60 * 60 * 1000)
LOCAL_THUMB_TTL == Ms(7 * 24 * 60 * 60 * 1000)
CLEANUP_AGE == 30 * DAY

\* the id Firestore gives the next added document
NewId == "doc" \o ToString(docSeq + 1)

\* the StoredThumbnail built from a thumbnail_metadata document
StoredThumbnail(id, data) ==
    [id |-> id, url |-> data.url, storageUrl |-> data.storageUrl,
     storagePath |-> data.storagePath, type |-> data.type, source |-> data.source,
     createdAt |-> data.createdAt, updatedAt |-> data.updatedAt,
     accessCount |-> data.accessCount, lastAccessedAt |-> data.lastAccessedAt,
     urlHash |-> data.urlHash]

convertFirestoreToBookmark(id) ==
    [id |-> id, userId |-> bookmarks[id].userId, url |-> bookmarks[id].url,
     tags |-> bookmarks[id].tags, thumbnail |-> bookmarks[id].thumbnail]

deserializeBookmarks(list) == List(list.items, "Date")

\* userHasAccessToUrl: the cached bookmark list decides; without one, true
cachedBookmarks(mc, ls, u, t) ==
    LET inMemory == getMemoryData(mc, BookmarksKey(u), t)
    IN  IF inMemory.tag = "list" THEN inMemory ELSE getLocalData(ls, BookmarksKey(u), t)

userHasAccessToUrl(mc, ls, u, url, t) ==
    LET cached == cachedBookmarks(mc, ls, u, t)
    IN  IF cached.tag = "list"
        THEN \E bookmark \in cached.items : bookmark.url = url
        ELSE TRUE

\* a guard that copies the list it found in localStorage into memory
AccessGuardBackfill(u, url) ==
    LET cached == getLocalData(localStorage[u], BookmarksKey(u), now)
        missed == getMemoryData(memoryCache[u], BookmarksKey(u), now).tag # "list"
        mc == getMemoryCache(memoryCache[u], BookmarksKey(u), now)
    IN  [allowed |-> userHasAccessToUrl(memoryCache[u], localStorage[u], u, url, now),
         mc |-> IF missed /\ cached.tag = "list"
                THEN setMemory(mc, BookmarksKey(u), cached, CACHE_TTL, now)
                ELSE mc,
         ls |-> IF missed THEN getLocalStore(localStorage[u], BookmarksKey(u), now)
                ELSE localStorage[u]]

\* the guard's answer, and the two tiers after its reads
AccessGuard(u, url) ==
    [allowed |-> userHasAccessToUrl(memoryCache[u], localStorage[u], u, url, now),
     mc |-> getMemoryCache(memoryCache[u], BookmarksKey(u), now),
     ls |-> IF getMemoryData(memoryCache[u], BookmarksKey(u), now).tag = "list"
            THEN localStorage[u]
            ELSE getLocalStore(localStorage[u], BookmarksKey(u), now)]

cacheThumbnailLocally(ls, url, thumbnailUrl, t) ==
    Put(ls, ThumbKey(url), JsonText([url |-> thumbnailUrl, timestamp |-> t,
                                     expires |-> t + LOCAL_THUMB_TTL]))

ThumbCached(ls, url) ==
    ThumbKey(url) \in DOMAIN ls /\ ls[ThumbKey(url)].text = "json"

getCachedThumbnail(ls, url, t) ==
    IF ThumbCached(ls, url) /\ ~(t > ls[ThumbKey(url)].entry.expires)
    THEN ls[ThumbKey(url)].entry.url
    ELSE NoThumbnail

\* localStorage after getCachedThumbnail: an expired item is removed
getCachedThumbnailStore(ls, url, t) ==
    IF ThumbCached(ls, url) /\ t > ls[ThumbKey(url)].entry.expires
    THEN Drop(ls, ThumbKey(url))
    ELSE ls

\* the result of a dedup hit
HitResult(rec) ==
    TResult(rec.storageUrl, rec.type, "firebase-storage-" \o rec.source, "firebase-cache")

-----------------------------------------------------------------------------
(* The application: calls of the enhanced thumbnail service and of the      *)
(* bookmark service, by two users, each in a browser session of their own.  *)
(* The fallback chain runs as one step here: it touches no shared state.    *)

MainUrls == {"https://a.example/"}
MainSteps == {31 * DAY}

\* The users who make calls in this run; bob's bookmark is in the store
Actors == {"alice"}

\* What a finished call leaves: its outcome and its history
Done(pr, status, result) ==
    [op |-> pr.op, user |-> pr.user, url |-> pr.url, skip |-> pr.skip,
     status |-> status, result |-> result, chain |-> pr.chain, renders |-> pr.renders,
     uploads |-> pr.uploads, seen |-> pr.seen,
     owned |-> pr.owned, had |-> pr.had, storageUrl |-> pr.storageUrl,
     added |-> pr.added, id |-> pr.id, writeOk |-> FALSE]

\* createBookmark goes on to add the bookmark and updateBookmark to update
\* it; every other call returns
FinishProc(pr, result) ==
    CASE pr.op = "create" -> [pr EXCEPT !.pc = "addBookmark", !.thumbnailData = result]
      [] pr.op = "update" -> [pr EXCEPT !.pc = "updateDoc", !.thumbnailData = result]
      [] OTHER -> Idle

FinishRet(pr, status, result) ==
    IF pr.op \in {"create", "update"} THEN NoCall ELSE Done(pr, status, result)

CachesBecome(u, mc, ls) ==
    /\ memoryCache' = [memoryCache EXCEPT ![u] = mc]
    /\ localStorage' = [localStorage EXCEPT ![u] = ls]

\* What a call does once it is past the guard: generateThumbnail and
\* trackThumbnailAccess look the URL's hash up, regenerateThumbnail goes
\* straight to the fallback chain
AfterGuardLookup(op) == "lookup"
AfterGuard(op) == IF op = "regenerate" THEN "chain" ELSE "lookup"

\* Where generateThumbnail is once past the guard and getCachedThumbnail:
\* generateUrlHash is its next statement, and when crypto.subtle is missing
\* it throws at once, which takes the call to the outer catch, whose second
\* reading of the guard sees the caches the first one left
AfterHash(op, hashOk) == IF hashOk THEN AfterGuard(op) ELSE "fallback"

\* generateThumbnail(url, {}, false) up to its lookup: the access guard, then
\* getCachedThumbnail, whose answer is not used, then generateUrlHash
ResolveStartAt(p, u, url, hashOk) ==
    /\ CanStart(p)
    /\ ops' = ops + 1
    /\ LET g == AccessGuard(u, url)
           me == Call("resolve", u, url, FALSE)
       IN  IF g.allowed
           THEN /\ CachesBecome(u, g.mc, getCachedThumbnailStore(g.ls, url, now))
                /\ procs' = [procs EXCEPT ![p] = [me EXCEPT !.pc = AfterHash(me.op, hashOk)]]
                /\ ret' = NoCall
           ELSE /\ CachesBecome(u, g.mc, g.ls)
                /\ ret' = Done(me, "AccessDenied", NoResult)
                /\ UNCHANGED procs
    /\ UNCHANGED <<now, ticks, attempts, rateLog, written, bookmarks, metadata, blobs,
                   renderCalls, statsWrites, docSeq, deleted>>

ResolveStart(p, u, url) == ResolveStartAt(p, u, url, TRUE)

\* trackThumbnailAccess: returns silently when the guard denies
TrackStart(p, u, url) ==
    /\ CanStart(p)
    /\ ops' = ops + 1
    /\ LET g == AccessGuard(u, url)
           me == Call("track", u, url, FALSE)
       IN  /\ CachesBecome(u, g.mc, g.ls)
           /\ IF g.allowed
              THEN procs' = [procs EXCEPT ![p] = [me EXCEPT !.pc = AfterGuard(me.op)]] /\ ret' = NoCall
              ELSE ret' = Done(me, "NoAccess", NoResult) /\ UNCHANGED procs
    /\ UNCHANGED <<now, ticks, attempts, rateLog, written, bookmarks, metadata, blobs,
                   renderCalls, statsWrites, docSeq, deleted>>

\* regenerateThumbnail(url, true) up to the fresh chain run: the guard, then
\* the browser item and the cached metadata of the URL are removed
RegenerateStart(p, u, url) ==
    /\ CanStart(p)
    /\ ops' = ops + 1
    /\ LET g == AccessGuard(u, url)
           me == Call("regenerate", u, url, FALSE)
           key == MetadataKey(generateUrlHash(url))
       IN  IF g.allowed
           THEN /\ CachesBecome(u, removeMemory(g.mc, key),
                             removeLocal(Drop(g.ls, ThumbKey(url)), key))
                /\ procs' = [procs EXCEPT ![p] = [me EXCEPT !.pc = AfterGuard(me.op)]]
                /\ ret' = NoCall
           ELSE /\ CachesBecome(u, g.mc, g.ls)
                /\ ret' = Done(me, "AccessDenied", NoResult)
                /\ UNCHANGED procs
    /\ UNCHANGED <<now, ticks, attempts, rateLog, written, bookmarks, metadata, blobs,
                   renderCalls, statsWrites, docSeq, deleted>>

\* createBookmark up to the lookup of generateThumbnail(url, {}, true): the
\* rate limiter, the URL validation, getCachedThumbnail
CreateStartAt(p, u, formUrl, hashOk) ==
    /\ CanStart(p)
    /\ ops' = ops + 1
    /\ validateUrl(formUrl).isValid
    /\ LET ok == isAllowed(attempts, CreateKey(u), CREATE_MAX_ATTEMPTS, CREATE_WINDOW, now)
           url == validateUrl(formUrl).sanitizedUrl
           me == Call("create", u, url, TRUE)
       IN  /\ attempts' = isAllowedAttempts(attempts, CreateKey(u), CREATE_MAX_ATTEMPTS,
                                            CREATE_WINDOW, now)
           /\ rateLog' = Logged(CreateKey(u), ok)
           /\ IF ok
              THEN /\ CachesBecome(u, memoryCache[u],
                                getCachedThumbnailStore(localStorage[u], url, now))
                   /\ procs' = [procs EXCEPT ![p] =
                                   [me EXCEPT !.pc = AfterHash(me.op, hashOk)]]
                   /\ ret' = NoCall
              ELSE /\ ret' = Done(me, "RateLimited", NoResult)
                   /\ UNCHANGED <<procs, memoryCache, localStorage>>
    /\ UNCHANGED <<now, ticks, written, bookmarks, metadata, blobs, renderCalls,
                   statsWrites, docSeq, deleted>>

CreateStart(p, u, formUrl) == CreateStartAt(p, u, formUrl, TRUE)

\* what the outer catch returns: the result of thumbnailService.generateThumbnail
DirectNothing(pr) == NoResult
DirectResult(pr) == pr.chain

\* the outer catch of generateThumbnail with access granted or not asked for:
\* thumbnailService.generateThumbnail is called and its result returned as
\* it is, with no lookup, no upload, no record and nothing cached
Fallback(p, a) ==
    /\ procs[p].pc = "fallback"
    /\ Asked(procs[p].url, a)
    /\ renderCalls' = renderCalls + 1
    /\ LET me == RunChain(procs[p], a, renderCalls + 1)
       IN  /\ procs' = [procs EXCEPT ![p] = FinishProc(me, DirectResult(me))]
           /\ ret' = FinishRet(me, "ok", DirectResult(me))
    /\ UNCHANGED <<now, ticks, attempts, rateLog, written, bookmarks, metadata, blobs,
                   memoryCache, localStorage, ops, statsWrites, docSeq, deleted>>

\* What a dedup hit gives the caller: resolve and create cache the blob
\* reference in the browser and return it, track returns nothing
ServedLocal(pr, ls) ==
    IF pr.op = "track" THEN ls
    ELSE cacheThumbnailLocally(ls, pr.url, pr.existing.rec.storageUrl, now)

ServedNothing(pr) == NoResult
ServedResult(pr) ==
    IF pr.op = "track" THEN NoResult ELSE HitResult(pr.existing.rec)

\* generateThumbnail's test of the looked-up record, and trackThumbnailAccess's
DedupNever(op, existing) == FALSE
DedupAnyKind(op, existing) == existing.tag = "thumbnail"
DedupHit(op, existing) ==
    /\ existing.tag = "thumbnail"
    /\ op = "track" \/ existing.rec.type = "screenshot"

\* checkThumbnailExists has returned, and on a hit updateAccessStats has run
\* to its updateDoc.  answer is what the lookup got: the cached record, a
\* failed query, an empty snapshot, or the id of docs[0].
Lookup(p, answer) ==
    /\ procs[p].pc = "lookup"
    /\ LET me == procs[p]
           u == me.user
           key == MetadataKey(generateUrlHash(me.url))
           cached == getMemoryData(memoryCache[u], key, now)
           mc1 == getMemoryCache(memoryCache[u], key, now)
           matches == {id \in DOMAIN metadata : metadata[id].urlHash = generateUrlHash(me.url)}
           existing ==
               CASE answer = "cached" -> cached
                 [] answer \in matches -> Thumb(StoredThumbnail(answer, metadata[answer]))
                 [] OTHER -> Null
           mc2 ==
               CASE answer = "empty" -> setMemory(mc1, key, Null, NEGATIVE_TTL, now)
                 [] answer \in matches -> setMemory(mc1, key, existing, METADATA_TTL, now)
                 [] OTHER -> mc1
           seen ==
               CASE answer = "cached" -> {cached.rec.storageUrl}
                 [] answer \in matches -> Recorded(me.url)
                 [] OTHER -> {}
           looked == [me EXCEPT !.existing = existing, !.had = Recorded(me.url),
                                !.seen = seen]
           hit == DedupHit(me.op, existing)
           cooldown == getMemoryData(mc2, AccessKey(existing.rec.id), now)
           lastUpdate == IF cooldown.tag = "number" THEN cooldown.n ELSE 0
           mc3 == getMemoryCache(mc2, AccessKey(existing.rec.id), now)
       IN  /\ answer \in (IF cached.tag = "thumbnail" THEN {"cached"}
                          ELSE {"fail"} \cup (IF matches = {} THEN {"empty"} ELSE matches))
           /\ IF hit /\ ~(now - lastUpdate < ACCESS_COOLDOWN)
              THEN /\ procs' = [procs EXCEPT ![p] = [looked EXCEPT !.pc = "stats", !.t0 = now]]
                   /\ CachesBecome(u, mc3, localStorage[u])
                   /\ ret' = NoCall
              ELSE IF hit
              THEN /\ procs' = [procs EXCEPT ![p] = FinishProc(looked, ServedResult(looked))]
                   /\ ret' = FinishRet(looked, "ok", ServedResult(looked))
                   /\ CachesBecome(u, mc3, ServedLocal(looked, localStorage[u]))
              ELSE IF me.op = "track"
              THEN /\ procs' = [procs EXCEPT ![p] = Idle]
                   /\ ret' = Done(looked, "ok", NoResult)
                   /\ CachesBecome(u, mc2, localStorage[u])
              ELSE /\ procs' = [procs EXCEPT ![p] = [looked EXCEPT !.pc = "chain"]]
                   /\ CachesBecome(u, mc2, localStorage[u])
                   /\ ret' = NoCall
    /\ UNCHANGED <<now, ticks, attempts, rateLog, written, bookmarks, metadata, blobs,
                   ops, renderCalls, statsWrites, docSeq, deleted>>

\* the document after updateAccessStats' updateDoc
AccessStatsRewrite(data, t) ==
    [data EXCEPT !.lastAccessedAt = t, !.accessCount = @ + 1, !.type = "favicon"]
AccessStatsUpdate(data, t) ==
    [data EXCEPT !.lastAccessedAt = t, !.accessCount = @ + 1]

\* updateAccessStats from its updateDoc on, then the rest of the hit.
\* outcome: the update and the read-back succeed, the update fails, or the
\* update succeeds and getStoredThumbnailById returns null.
\* updateAccessStats reaches its setMemory of the cooldown entry when the
\* awaited updateDoc did not throw
CooldownStartsAlways(outcome) == TRUE
CooldownStarts(outcome) == outcome # "updateFails"

StatsWrite(p, outcome) ==
    /\ procs[p].pc = "stats"
    /\ LET me == procs[p]
           u == me.user
           id == me.existing.rec.id
           wrote == outcome # "updateFails"
           mc1 == IF CooldownStarts(outcome)
                  THEN setMemory(memoryCache[u], AccessKey(id), Num(me.t0), ACCESS_COOLDOWN, now)
                  ELSE memoryCache[u]
           key == MetadataKey(metadata[id].urlHash)
       IN  /\ wrote => id \in DOMAIN metadata
           /\ metadata' = IF wrote
                          THEN [metadata EXCEPT ![id] = AccessStatsUpdate(@, me.t0)]
                          ELSE metadata
           /\ statsWrites' = IF wrote
                             THEN Append(statsWrites, [id |-> id, t |-> now, user |-> u])
                             ELSE statsWrites
           /\ IF outcome = "ok"
              THEN CachesBecome(u, removeMemory(mc1, key),
                                ServedLocal(me, removeLocal(localStorage[u], key)))
              ELSE CachesBecome(u, mc1, ServedLocal(me, localStorage[u]))
           /\ procs' = [procs EXCEPT ![p] = FinishProc(me, ServedResult(me))]
           /\ ret' = FinishRet(me, "ok", ServedResult(me))
    /\ UNCHANGED <<now, ticks, attempts, rateLog, written, bookmarks, blobs, ops,
                   renderCalls, docSeq, deleted>>

\* the test that sends a chain result to the Blob Store
IsDirectUrl(result) ==
    result.thumbnail.scheme # "none" /\ result.thumbnail.scheme # "data"

UploadAny(result) == result.thumbnail.scheme # "none"
Uploadable(result) ==
    /\ result.thumbnail.scheme # "none"
    /\ ~IsDirectUrl(result)
    /\ result.type = "screenshot"

\* thumbnailService.generateThumbnail has returned to generateThumbnail or to
\* regenerateThumbnail: a screenshot goes on to the upload, under the
\* canonical hash or under regenerate's unique hash; a direct link is cached
\* in the browser and returned; anything else is returned as it is.
Chain(p, a, r) ==
    /\ procs[p].pc = "chain"
    /\ Asked(procs[p].url, a)
    /\ r = "k3x" \/ (procs[p].op = "regenerate" /\ a.render = "image-screenshot")
    /\ renderCalls' = renderCalls + 1
    /\ LET me == RunChain(procs[p], a, renderCalls + 1)
           u == me.user
           urlHash == generateUrlHash(me.url)
           key == IF me.op = "regenerate" THEN uniqueHash(urlHash, now, r) ELSE urlHash
       IN  IF Uploadable(me.chain)
           THEN /\ procs' = [procs EXCEPT ![p] = [me EXCEPT !.pc = "upload", !.key = key]]
                /\ UNCHANGED localStorage /\ ret' = NoCall
           ELSE /\ procs' = [procs EXCEPT ![p] = FinishProc(me, me.chain)]
                /\ ret' = FinishRet(me, "ok", me.chain)
                /\ localStorage' =
                     IF IsDirectUrl(me.chain)
                     THEN [localStorage EXCEPT ![u] =
                             cacheThumbnailLocally(@, me.url, me.chain.thumbnail, now)]
                     ELSE localStorage
    /\ UNCHANGED <<now, ticks, attempts, rateLog, written, bookmarks, metadata, blobs,
                   memoryCache, ops, statsWrites, docSeq, deleted>>

\* the source field regenerateThumbnail writes
StoredSourcePlain(pr) == pr.chain.source
StoredSource(pr) ==
    IF pr.op = "regenerate" THEN "regenerated-" \o pr.chain.source ELSE pr.chain.source

\* catch (uploadError): generateThumbnail caches the data URL in the browser,
\* regenerateThumbnail does not; both return the chain's result
UploadFailedLocal(pr, ls) ==
    IF pr.op = "regenerate" THEN ls
    ELSE cacheThumbnailLocally(ls, pr.url, pr.chain.thumbnail, now)

\* uploadBytes puts the object at the path, in place of what was there
uploadBytesIfAbsent(store, path, object) ==
    IF path \in DOMAIN store THEN store ELSE Put(store, path, object)
uploadBytes(store, path, object) == Put(store, path, object)

\* uploadThumbnailToStorage returns when uploadBytes and getDownloadURL both
\* did; when either throws, the caller's catch (uploadError) runs
UploadIgnored(outcome) == TRUE
UploadReturned(outcome) == outcome = "ok"

\* uploadThumbnailToStorage: uploadBytes, then getDownloadURL
Upload(p, outcome) ==
    /\ procs[p].pc = "upload"
    /\ LET me == [procs[p] EXCEPT !.uploads = @ + 1]
           u == me.user
           path == StoragePath(me.key)
           object == [image |-> me.chain.thumbnail, url |-> me.url, type |-> me.chain.type,
                      source |-> StoredSource(me), urlHash |-> me.key, userId |-> u]
       IN  /\ blobs' = IF outcome = "uploadFails" THEN blobs
                     ELSE uploadBytes(blobs, path, object)
           /\ IF UploadReturned(outcome)
              THEN /\ procs' = [procs EXCEPT ![p] =
                          [me EXCEPT !.pc = "store",
                                     !.storageUrl = getDownloadURL(path, object)]]
                   /\ UNCHANGED localStorage /\ ret' = NoCall
              ELSE /\ procs' = [procs EXCEPT ![p] = FinishProc(me, me.chain)]
                   /\ ret' = FinishRet(me, "ok", me.chain)
                   /\ localStorage' = [localStorage EXCEPT ![u] = UploadFailedLocal(me, @)]
    /\ UNCHANGED <<now, ticks, attempts, rateLog, written, bookmarks, metadata,
                   memoryCache, ops, renderCalls, statsWrites, docSeq, deleted>>

\* what generateThumbnail and regenerateThumbnail return after the upload and
\* the metadata write: the blob reference in place of the image data
UploadedResultRaw(pr) == pr.chain
UploadedResult(pr) ==
    TResult(pr.storageUrl, pr.chain.type,
            IF pr.op = "regenerate"
            THEN "regenerated-" \o pr.chain.source
            ELSE "firebase-uploaded-" \o pr.chain.source,
            IF pr.op = "regenerate" THEN "regenerated" ELSE pr.chain.method)

\* storeThumbnailMetadata: addDoc, then the blob reference is cached in the
\* browser and returned
Store(p, ok) ==
    /\ procs[p].pc = "store"
    /\ LET me == [procs[p] EXCEPT !.added = IF ok THEN @ \cup {NewId} ELSE @]
           u == me.user
           result == UploadedResult(me)
       IN  IF ok
           THEN /\ metadata' = Put(metadata, NewId,
                      [url |-> me.url, urlHash |-> me.key, storageUrl |-> me.storageUrl,
                       storagePath |-> StoragePath(me.key), type |-> me.chain.type,
                       source |-> StoredSource(me), createdAt |-> now, updatedAt |-> now,
                       accessCount |-> 1, lastAccessedAt |-> now, userId |-> u])
                /\ docSeq' = docSeq + 1
                /\ localStorage' = [localStorage EXCEPT ![u] =
                                      cacheThumbnailLocally(@, me.url, me.storageUrl, now)]
                /\ procs' = [procs EXCEPT ![p] = FinishProc(me, result)]
                /\ ret' = FinishRet(me, "ok", result)
           ELSE /\ UNCHANGED <<metadata, docSeq>>
                /\ localStorage' = [localStorage EXCEPT ![u] = UploadFailedLocal(me, @)]
                /\ procs' = [procs EXCEPT ![p] = FinishProc(me, me.chain)]
                /\ ret' = FinishRet(me, "ok", me.chain)
    /\ UNCHANGED <<now, ticks, attempts, rateLog, written, bookmarks, blobs,
                   memoryCache, ops, renderCalls, statsWrites, deleted>>

\* the tags of the form createBookmark is given
FormTags == {"saved"}

\* clearBookmarkCaches: cacheService.remove of the list and of the tags
clearBookmarkCaches(u) ==
    CachesBecome(u, removeMemory(removeMemory(memoryCache[u], BookmarksKey(u)), TagsKey(u)),
                 removeLocal(removeLocal(localStorage[u], BookmarksKey(u)), TagsKey(u)))

\* createBookmark from its addDoc on.  bookmarkData holds the thumbnail field
\* whatever thumbnailData.thumbnail is, and addDoc rejects a document with a
\* field that is undefined before it sends anything.  storeUp: whether the
\* store accepts the write it is sent.
CreateAdd(p, storeUp) ==
    /\ procs[p].pc = "addBookmark"
    /\ LET me == procs[p]
           ok == storeUp /\ me.thumbnailData.thumbnail.scheme # "none"
       IN  /\ IF ok
              THEN /\ bookmarks' = Put(bookmarks, NewId,
                         [userId |-> me.user, url |-> me.url, tags |-> FormTags,
                          thumbnail |-> me.thumbnailData.thumbnail])
                   /\ docSeq' = docSeq + 1
                   /\ clearBookmarkCaches(me.user)
              ELSE UNCHANGED <<bookmarks, docSeq, memoryCache, localStorage>>
           /\ ret' = [Done(me, IF ok THEN "ok" ELSE "error", me.thumbnailData)
                        EXCEPT !.op = "createBookmark", !.writeOk = storeUp]
           /\ procs' = [procs EXCEPT ![p] = Idle]
    /\ UNCHANGED <<now, ticks, attempts, rateLog, written, metadata, blobs, ops,
                   renderCalls, statsWrites, deleted>>

\* updateBookmark up to its first await after getDoc: the ownership checks,
\* the URL validation and, when the URL has changed, generateThumbnailData(url,
\* false) up to its lookup.  When the guard denies, generateThumbnail throws,
\* its catch asks the guard again and throws again, and generateThumbnailData
\* returns the favicon alone.
UpdateStart(p, u, id, formUrl) ==
    /\ CanStart(p)
    /\ ops' = ops + 1
    /\ validateUrl(formUrl).isValid
    /\ LET url == validateUrl(formUrl).sanitizedUrl
           me == [Call("update", u, url, FALSE) EXCEPT !.id = id]
           g == AccessGuard(u, url)
           kept == [NoResult EXCEPT !.thumbnail = bookmarks[id].thumbnail]
       IN  IF id \notin DOMAIN bookmarks \/ bookmarks[id].userId # u
           THEN /\ ret' = [Done(me, IF id \in DOMAIN bookmarks THEN "Unauthorized"
                                    ELSE "NotFound", NoResult)
                             EXCEPT !.op = "updateBookmark"]
                /\ UNCHANGED <<procs, memoryCache, localStorage>>
           ELSE IF bookmarks[id].url = url
           THEN /\ procs' = [procs EXCEPT ![p] =
                       [me EXCEPT !.pc = "updateDoc", !.thumbnailData = kept]]
                /\ ret' = NoCall
                /\ UNCHANGED <<memoryCache, localStorage>>
           ELSE IF g.allowed
           THEN /\ CachesBecome(u, g.mc, getCachedThumbnailStore(g.ls, url, now))
                /\ procs' = [procs EXCEPT ![p] = [me EXCEPT !.pc = AfterGuard(me.op)]]
                /\ ret' = NoCall
           ELSE /\ CachesBecome(u, g.mc, g.ls)
                /\ procs' = [procs EXCEPT ![p] = [me EXCEPT !.pc = "updateDoc"]]
                /\ ret' = NoCall
    /\ UNCHANGED <<now, ticks, attempts, rateLog, written, bookmarks, metadata, blobs,
                   renderCalls, statsWrites, docSeq, deleted>>

\* updateBookmark from its updateDoc on: the thumbnail field is written only
\* when thumbnailData has one
UpdateWrite(p, storeUp) ==
    /\ procs[p].pc = "updateDoc"
    /\ LET me == procs[p]
           ok == storeUp /\ me.id \in DOMAIN bookmarks
       IN  /\ IF ok
              THEN /\ bookmarks' =
                        [bookmarks EXCEPT ![me.id].url = me.url,
                                          ![me.id].thumbnail =
                                              IF me.thumbnailData.thumbnail.scheme # "none"
                                              THEN me.thumbnailData.thumbnail ELSE @]
                   /\ clearBookmarkCaches(me.user)
              ELSE UNCHANGED <<bookmarks, memoryCache, localStorage>>
           /\ ret' = [Done(me, IF ok THEN "ok" ELSE "error", me.thumbnailData)
                        EXCEPT !.op = "updateBookmark", !.writeOk = storeUp]
           /\ procs' = [procs EXCEPT ![p] = Idle]
    /\ UNCHANGED <<now, ticks, attempts, rateLog, written, metadata, blobs, ops,
                   renderCalls, statsWrites, docSeq, deleted>>

\* deleteBookmark of one of the caller's bookmarks
DeleteBookmark(u, id, ok) ==
    /\ ops < MaxOps
    /\ id \in DOMAIN bookmarks
    /\ bookmarks[id].userId = u
    /\ ops' = ops + 1
    /\ IF ok
       THEN bookmarks' = Drop(bookmarks, id) /\ clearBookmarkCaches(u)
       ELSE UNCHANGED <<bookmarks, memoryCache, localStorage>>
    /\ ret' = [op |-> "deleteBookmark", user |-> u, id |-> id,
               status |-> IF ok THEN "ok" ELSE "error"]
    /\ UNCHANGED <<now, ticks, attempts, rateLog, written, metadata, blobs, procs,
                   renderCalls, statsWrites, docSeq, deleted>>

\* getCachedBookmarks up to its Firestore query: the memory tier, then
\* localStorage, whose hit is copied into the memory tier
FetchStart(p, u) ==
    /\ CanStart(p)
    /\ ops' = ops + 1
    /\ LET me == Call("fetch", u, "", FALSE)
           inMemory == getMemoryData(memoryCache[u], BookmarksKey(u), now)
           mc1 == getMemoryCache(memoryCache[u], BookmarksKey(u), now)
           inLocal == getLocalData(localStorage[u], BookmarksKey(u), now)
           ls1 == getLocalStore(localStorage[u], BookmarksKey(u), now)
       IN  IF inMemory.tag = "list"
           THEN /\ ret' = [op |-> "fetch", user |-> u, status |-> "ok",
                           value |-> deserializeBookmarks(inMemory)]
                /\ CachesBecome(u, mc1, localStorage[u])
                /\ UNCHANGED procs
           ELSE IF inLocal.tag = "list"
           THEN /\ ret' = [op |-> "fetch", user |-> u, status |-> "ok",
                           value |-> deserializeBookmarks(inLocal)]
                /\ CachesBecome(u, setMemory(mc1, BookmarksKey(u),
                                             deserializeBookmarks(inLocal), CACHE_TTL, now),
                                ls1)
                /\ UNCHANGED procs
           ELSE /\ procs' = [procs EXCEPT ![p] = [me EXCEPT !.pc = "fetchQuery"]]
                /\ CachesBecome(u, mc1, ls1)
                /\ ret' = NoCall
    /\ UNCHANGED <<now, ticks, attempts, rateLog, written, bookmarks, metadata, blobs,
                   renderCalls, statsWrites, docSeq, deleted>>

\* the query where('userId', '==', userId) runs on the server
FetchQuery(p, ok) ==
    /\ procs[p].pc = "fetchQuery"
    /\ LET me == procs[p]
           docs == {id \in DOMAIN bookmarks : bookmarks[id].userId = me.user}
       IN  IF ok
           THEN /\ procs' = [procs EXCEPT ![p] =
                       [me EXCEPT !.pc = "fetchStore",
                                  !.snapshot = {convertFirestoreToBookmark(id) : id \in docs}]]
                /\ ret' = NoCall
           ELSE /\ procs' = [procs EXCEPT ![p] = Idle]
                /\ ret' = [op |-> "fetch", user |-> me.user, status |-> "error",
                           value |-> Null]
    /\ UNCHANGED <<now, ticks, attempts, rateLog, written, bookmarks, metadata, blobs,
                   memoryCache, localStorage, ops, renderCalls, statsWrites, docSeq,
                   deleted>>

\* the snapshot has arrived: it is cached in both tiers and returned
FetchStore(p, quotaOk) ==
    /\ procs[p].pc = "fetchStore"
    /\ LET me == procs[p]
           u == me.user
           list == List(me.snapshot, "Date")
       IN  /\ CachesBecome(u, setMemory(memoryCache[u], BookmarksKey(u), list, CACHE_TTL, now),
                           setLocal(localStorage[u], BookmarksKey(u), list, CACHE_TTL, now,
                                    quotaOk))
           /\ ret' = [op |-> "fetch", user |-> u, status |-> "ok", value |-> list,
                      localOk |-> quotaOk]
           /\ procs' = [procs EXCEPT ![p] = Idle]
    /\ UNCHANGED <<now, ticks, attempts, rateLog, written, bookmarks, metadata, blobs,
                   ops, renderCalls, statsWrites, docSeq, deleted>>

\* the tags of a list of bookmarks, without duplicates and in order: a set
TagsOf(list) == Tags(UNION {bookmark.tags : bookmark \in list.items})

\* getAllTags up to the Firestore query of getCachedBookmarks: the tags in the
\* memory tier, then in localStorage, whose hit is copied into the memory
\* tier; on a miss in both, the tags of the list getCachedBookmarks returns
\* from a tier are cached in both tiers
TagsStart(p, u, quotaOk) ==
    /\ CanStart(p)
    /\ ops' = ops + 1
    /\ LET me == Call("tags", u, "", FALSE)
           inMemory == getMemoryData(memoryCache[u], TagsKey(u), now)
           mc1 == getMemoryCache(memoryCache[u], TagsKey(u), now)
           inLocal == getLocalData(localStorage[u], TagsKey(u), now)
           ls1 == getLocalStore(localStorage[u], TagsKey(u), now)
           listInMemory == getMemoryData(mc1, BookmarksKey(u), now)
           mc2 == getMemoryCache(mc1, BookmarksKey(u), now)
           listInLocal == getLocalData(ls1, BookmarksKey(u), now)
           ls2 == getLocalStore(ls1, BookmarksKey(u), now)
           Returned(tags) == [op |-> "tags", user |-> u, status |-> "ok", value |-> tags]
           Computed(tags) == [op |-> "tags", user |-> u, status |-> "ok", value |-> tags,
                              localOk |-> quotaOk]
       IN  IF inMemory.tag = "tags"
           THEN /\ ret' = Returned(inMemory)
                /\ CachesBecome(u, mc1, localStorage[u])
                /\ UNCHANGED procs
           ELSE IF inLocal.tag = "tags"
           THEN /\ ret' = Returned(inLocal)
                /\ CachesBecome(u, setMemory(mc1, TagsKey(u), inLocal, CACHE_TTL, now), ls1)
                /\ UNCHANGED procs
           ELSE IF listInMemory.tag = "list"
           THEN /\ ret' = Computed(TagsOf(listInMemory))
                /\ CachesBecome(u, setMemory(mc2, TagsKey(u), TagsOf(listInMemory),
                                             CACHE_TTL, now),
                                setLocal(ls1, TagsKey(u), TagsOf(listInMemory),
                                         CACHE_TTL, now, quotaOk))
                /\ UNCHANGED procs
           ELSE IF listInLocal.tag = "list"
           THEN /\ ret' = Computed(TagsOf(listInLocal))
                /\ CachesBecome(u,
                       setMemory(setMemory(mc2, BookmarksKey(u),
                                           deserializeBookmarks(listInLocal), CACHE_TTL, now),
                                 TagsKey(u), TagsOf(listInLocal), CACHE_TTL, now),
                       setLocal(ls2, TagsKey(u), TagsOf(listInLocal), CACHE_TTL, now,
                                quotaOk))
                /\ UNCHANGED procs
           ELSE /\ procs' = [procs EXCEPT ![p] = [me EXCEPT !.pc = "tagsQuery"]]
                /\ CachesBecome(u, mc2, ls2)
                /\ ret' = NoCall
    /\ UNCHANGED <<now, ticks, attempts, rateLog, written, bookmarks, metadata, blobs,
                   renderCalls, statsWrites, docSeq, deleted>>

\* getAllTags from the answer of the query on: getCachedBookmarks caches the
\* list in both tiers, getAllTags the tags; a failed query makes it throw
TagsQuery(p, ok, quotaOk) ==
    /\ procs[p].pc = "tagsQuery"
    /\ LET me == procs[p]
           u == me.user
           docs == {id \in DOMAIN bookmarks : bookmarks[id].userId = u}
           list == List({convertFirestoreToBookmark(id) : id \in docs}, "Date")
       IN  /\ IF ok
              THEN /\ CachesBecome(u,
                          setMemory(setMemory(memoryCache[u], BookmarksKey(u), list,
                                              CACHE_TTL, now),
                                    TagsKey(u), TagsOf(list), CACHE_TTL, now),
                          setLocal(setLocal(localStorage[u], BookmarksKey(u), list,
                                            CACHE_TTL, now, quotaOk),
                                   TagsKey(u), TagsOf(list), CACHE_TTL, now, quotaOk))
                   /\ ret' = [op |-> "tags", user |-> u, status |-> "ok",
                              value |-> TagsOf(list), localOk |-> quotaOk]
              ELSE /\ UNCHANGED <<memoryCache, localStorage>>
                   /\ ret' = [op |-> "tags", user |-> u, status |-> "error",
                              value |-> Null]
           /\ procs' = [procs EXCEPT ![p] = Idle]
    /\ UNCHANGED <<now, ticks, attempts, rateLog, written, bookmarks, metadata, blobs,
                   ops, renderCalls, statsWrites, docSeq, deleted>>

\* cleanupOldThumbnails(30) up to its loop: the caller's screenshot records
\* last accessed before the cutoff
CleanupStart(p, u, queryOk) ==
    /\ CanStart(p)
    /\ ops' = ops + 1
    /\ LET me == Call("cleanup", u, "", FALSE)
           cutoff == now - CLEANUP_AGE
           docs == {id \in DOMAIN metadata :
                       /\ metadata[id].userId = u
                       /\ metadata[id].type = "screenshot"
                       /\ metadata[id].lastAccessedAt < cutoff}
       IN  IF queryOk /\ docs # {}
           THEN /\ procs' = [procs EXCEPT ![p] =
                       [me EXCEPT !.pc = "cleanup",
                                  !.snapshot = {[id |-> id, url |-> metadata[id].url] :
                                                   id \in docs}]]
                /\ ret' = NoCall
           ELSE /\ ret' = Done(me, IF queryOk THEN "ok" ELSE "error", NoResult)
                /\ UNCHANGED procs
    /\ UNCHANGED <<now, ticks, attempts, rateLog, written, bookmarks, metadata, blobs,
                   memoryCache, localStorage, renderCalls, statsWrites, docSeq, deleted>>

\* one round of the loop: the guard for the record's URL, then deleteDoc
CleanupLoop(p, d, deleteOk) ==
    /\ procs[p].pc = "cleanup"
    /\ d \in procs[p].snapshot
    /\ LET me == procs[p]
           u == me.user
           g == AccessGuard(u, d.url)
           gone == ~g.allowed /\ deleteOk /\ d.id \in DOMAIN metadata
           rest == me.snapshot \ {d}
       IN  /\ CachesBecome(u, g.mc, g.ls)
           /\ metadata' = IF gone THEN Drop(metadata, d.id) ELSE metadata
           /\ deleted' = IF gone
                         THEN deleted \cup
                              {[id |-> d.id, url |-> d.url, by |-> u,
                                bookmarkedBy |-> {v \in Users : OwnsBookmark(v, d.url)}]}
                         ELSE deleted
           /\ IF rest = {}
              THEN /\ procs' = [procs EXCEPT ![p] = Idle]
                   /\ ret' = Done(me, "ok", NoResult)
              ELSE /\ procs' = [procs EXCEPT ![p] = [me EXCEPT !.snapshot = rest]]
                   /\ ret' = NoCall
    /\ UNCHANGED <<now, ticks, attempts, rateLog, written, bookmarks, blobs, ops,
                   renderCalls, statsWrites, docSeq>>

\* The page is loaded again: a new CacheService and a new RateLimiter, the
\* same localStorage
Reload(u) ==
    /\ ops < MaxOps
    /\ \A p \in Procs : procs[p].pc = "idle" \/ procs[p].user # u
    /\ memoryCache[u] # EmptyMap \/ CreateKey(u) \in DOMAIN attempts
    /\ ops' = ops + 1
    /\ memoryCache' = [memoryCache EXCEPT ![u] = EmptyMap]
    /\ attempts' = Restrict(attempts, DOMAIN attempts \ {CreateKey(u)})
    /\ rateLog' = Restrict(rateLog, DOMAIN rateLog \ {CreateKey(u)})
    /\ ret' = [op |-> "reload", user |-> u]
    /\ UNCHANGED <<now, ticks, localStorage, written, bookmarks, metadata, blobs, procs,
                   renderCalls, statsWrites, docSeq, deleted>>

\* Time passes.  A step of the clock is long compared with a call, so the
\* clock advances between calls.
Jump(d) ==
    /\ ticks < MaxJumps
    /\ \A p \in Procs : procs[p].pc = "idle"
    /\ now' = now + d
    /\ ticks' = ticks + 1
    /\ ret' = NoCall
    /\ UNCHANGED <<attempts, rateLog, memoryCache, localStorage, written, bookmarks,
                   metadata, blobs, procs, ops, renderCalls, statsWrites, docSeq, deleted>>

Next ==
    \/ \E p \in Procs, u \in Actors, url \in MainUrls : ResolveStart(p, u, url)
    \/ \E p \in Procs, u \in Actors, url \in MainUrls : TrackStart(p, u, url)
    \/ \E p \in Procs, u \in Actors, url \in MainUrls : RegenerateStart(p, u, url)
    \/ \E p \in Procs, u \in Actors, url \in MainUrls : CreateStart(p, u, url)
    \/ \E p \in Procs, answer \in {"cached", "fail", "empty"} \cup DOMAIN metadata :
          Lookup(p, answer)
    \/ \E p \in Procs, outcome \in {"ok", "updateFails", "readFails"} : StatsWrite(p, outcome)
    \/ \E p \in Procs, a \in ChainAnswers, r \in RandomSuffixes : Chain(p, a, r)
    \/ \E p \in Procs, outcome \in {"ok", "uploadFails", "urlFails"} : Upload(p, outcome)
    \/ \E p \in Procs, ok \in BOOLEAN : Store(p, ok)
    \/ \E p \in Procs, storeUp \in BOOLEAN : CreateAdd(p, storeUp)
    \/ \E u \in Actors, id \in DOMAIN bookmarks, ok \in BOOLEAN : DeleteBookmark(u, id, ok)
    \/ \E p \in Procs, u \in Actors : FetchStart(p, u)
    \/ \E p \in Procs, ok \in BOOLEAN : FetchQuery(p, ok)
    \/ \E p \in Procs, quotaOk \in BOOLEAN : FetchStore(p, quotaOk)
    \/ \E p \in Procs, u \in Actors, queryOk \in BOOLEAN : CleanupStart(p, u, queryOk)
    \/ \E p \in Procs : \E d \in procs[p].snapshot, deleteOk \in BOOLEAN :
          CleanupLoop(p, d, deleteOk)
    \/ \E u \in Actors : Reload(u)
    \/ \E d \in MainSteps : Jump(d)

Spec == Init /\ [][Next]_vars

-----------------------------------------------------------------------------
(* Creating and editing bookmarks: createBookmark and updateBookmark with   *)
(* the resolution each of them runs, one call at a time, and the list fetch *)
(* that fills the caller's cached bookmark list.                            *)

EditUrls == {"https://a.example/", "https://www.youtube.com/watch?v=abc123"}

NextEdit ==
    \/ \E u \in Actors, url \in EditUrls : CreateStart(1, u, url)
    \/ \E u \in Actors, id \in DOMAIN bookmarks, url \in EditUrls : UpdateStart(1, u, id, url)
    \/ \E answer \in {"cached", "fail", "empty"} \cup DOMAIN metadata : Lookup(1, answer)
    \/ \E outcome \in {"ok", "updateFails", "readFails"} : StatsWrite(1, outcome)
    \/ \E a \in ChainAnswers : Chain(1, a, "k3x")
    \/ \E outcome \in {"ok", "uploadFails", "urlFails"} : Upload(1, outcome)
    \/ \E ok \in BOOLEAN : Store(1, ok)
    \/ \E storeUp \in BOOLEAN : CreateAdd(1, storeUp)
    \/ \E storeUp \in BOOLEAN : UpdateWrite(1, storeUp)
    \/ \E u \in Actors : FetchStart(1, u)
    \/ \E ok \in BOOLEAN : FetchQuery(1, ok)
    \/ \E quotaOk \in BOOLEAN : FetchStore(1, quotaOk)

SpecEdit == Init /\ [][NextEdit]_vars

-----------------------------------------------------------------------------
(* The reads of the two cache tiers: the list of bookmarks read by          *)
(* getCachedBookmarks and by the access guard, the tags read by getAllTags. *)
(* localStorage outlives the page: a session may begin with the items an    *)
(* earlier session of the same user wrote some minutes before.              *)

ReadSteps == {Ms(3 * 60 * 1000)}
EarlierSession == Ms(3 * 60 * 1000)

\* what getAllTags of the earlier session left in bob's localStorage
EarlierItems ==
    LET list == List({[id |-> id, userId |-> InitialBookmarks[id].userId,
                       url |-> InitialBookmarks[id].url, tags |-> InitialBookmarks[id].tags,
                       thumbnail |-> InitialBookmarks[id].thumbnail] :
                          id \in {d \in DOMAIN InitialBookmarks :
                                     InitialBookmarks[d].userId = "bob"}}, "Date")
        t == Epoch - EarlierSession
    IN  setLocal(setLocal(EmptyMap, BookmarksKey("bob"), list, CACHE_TTL, t, TRUE),
                 TagsKey("bob"), TagsOf(list), CACHE_TTL, t, TRUE)

InitRead ==
    /\ now = Epoch
    /\ ticks = 0
    /\ attempts = EmptyMap
    /\ rateLog = EmptyMap
    /\ memoryCache = [u \in Users |-> EmptyMap]
    /\ localStorage \in {[u \in Users |-> EmptyMap],
                         [u \in Users |-> IF u = "bob" THEN EarlierItems ELSE EmptyMap]}
    /\ written = EmptyMap
    /\ ret = NoCall
    /\ bookmarks = InitialBookmarks
    /\ metadata = EmptyMap
    /\ blobs = EmptyMap
    /\ procs = [p \in Procs |-> Idle]
    /\ ops = 0
    /\ renderCalls = 0
    /\ statsWrites = <<>>
    /\ docSeq = 0
    /\ deleted = {}

NextRead ==
    \/ \E p \in Procs, u \in Users : FetchStart(p, u)
    \/ \E p \in Procs, ok \in BOOLEAN : FetchQuery(p, ok)
    \/ \E p \in Procs, quotaOk \in BOOLEAN : FetchStore(p, quotaOk)
    \/ \E p \in Procs, u \in Users, quotaOk \in BOOLEAN : TagsStart(p, u, quotaOk)
    \/ \E p \in Procs, ok \in BOOLEAN, quotaOk \in BOOLEAN : TagsQuery(p, ok, quotaOk)
    \/ \E p \in Procs, u \in Users, url \in MainUrls : TrackStart(p, u, url)
    \/ \E p \in Procs, answer \in {"fail", "empty"} : Lookup(p, answer)
    \/ \E u \in Users : Reload(u)
    \/ \E d \in ReadSteps : Jump(d)

SpecRead == InitRead /\ [][NextRead]_vars

-----------------------------------------------------------------------------
(* The memory tier filled: setMemory called with a new key each time, more  *)
(* often than MAX_MEMORY_SIZE, the first entries with a short lifetime or   *)
(* the default one, and the clock stepping once past the short lifetime.    *)

MaxFill == 103
MaxShort == 2
SHORT_TTL == Ms(60 * 1000)
FillSteps == {Ms(2 * 60 * 1000)}
FillKey(n) == "key" \o ToString(n)

\* cacheService.setMemory(key, data, ttl) with the next new key
FillCall(ttl) ==
    /\ ops < MaxFill
    /\ ttl = DEFAULT_TTL \/ ops < MaxShort
    /\ ops' = ops + 1
    /\ memoryCache' = [memoryCache EXCEPT ![CacheUser] =
                          setMemory(@, FillKey(ops + 1), Num(ops + 1), ttl, now)]
    /\ ret' = [op |-> "setMemory", key |-> FillKey(ops + 1), value |-> Null, at |-> now,
               failed |-> FALSE]
    /\ UNCHANGED <<now, ticks, localStorage, written>>
    /\ CacheFrame

NextFill ==
    \/ \E ttl \in {SHORT_TTL, DEFAULT_TTL} : FillCall(ttl)
    \/ \E d \in FillSteps : Jump(d)

SpecFill == Init /\ [][NextFill]_vars

-----------------------------------------------------------------------------
(* Resolutions against a Metadata Store that holds a record of a direct     *)
(* link: the earlier release of the service recorded favicons and video     *)
(* thumbnails too, with the link as storageUrl and no storagePath, and the  *)
(* store keeps what it wrote.                                               *)

LegacyId == "old1"

LegacyRecord(url) ==
    [url |-> url, urlHash |-> generateUrlHash(url), storageUrl |-> getFaviconUrl(url),
     storagePath |-> "", type |-> "favicon", source |-> "google-favicon",
     createdAt |-> Epoch - DAY, updatedAt |-> Epoch - DAY, accessCount |-> 1,
     lastAccessedAt |-> Epoch - DAY, userId |-> "bob"]

InitLegacy ==
    /\ now = Epoch
    /\ ticks = 0
    /\ attempts = EmptyMap
    /\ rateLog = EmptyMap
    /\ memoryCache = [u \in Users |-> EmptyMap]
    /\ localStorage = [u \in Users |-> EmptyMap]
    /\ written = EmptyMap
    /\ ret = NoCall
    /\ bookmarks = InitialBookmarks
    /\ \E url \in MainUrls : metadata = Put(EmptyMap, LegacyId, LegacyRecord(url))
    /\ blobs = EmptyMap
    /\ procs = [p \in Procs |-> Idle]
    /\ ops = 0
    /\ renderCalls = 0
    /\ statsWrites = <<>>
    /\ docSeq = 0
    /\ deleted = {}

NextLegacy ==
    \/ \E p \in Procs, u \in Actors, url \in MainUrls : ResolveStart(p, u, url)
    \/ \E p \in Procs, answer \in {"cached", "fail", "empty"} \cup DOMAIN metadata :
          Lookup(p, answer)
    \/ \E p \in Procs, outcome \in {"ok", "updateFails", "readFails"} : StatsWrite(p, outcome)
    \/ \E p \in Procs, a \in ChainAnswers : Chain(p, a, "k3x")
    \/ \E p \in Procs, outcome \in {"ok", "uploadFails", "urlFails"} : Upload(p, outcome)
    \/ \E p \in Procs, ok \in BOOLEAN : Store(p, ok)

SpecLegacy == InitLegacy /\ [][NextLegacy]_vars

-----------------------------------------------------------------------------
(* Resolutions in a browser where generateUrlHash may throw: the calls of   *)
(* generateThumbnail, direct and from createBookmark, with list fetches     *)
(* that fill the cache the access guard reads.                              *)

NextFallback ==
    \/ \E p \in Procs, u \in Actors, url \in MainUrls, hashOk \in BOOLEAN :
          ResolveStartAt(p, u, url, hashOk)
    \/ \E p \in Procs, u \in Actors, url \in MainUrls, hashOk \in BOOLEAN :
          CreateStartAt(p, u, url, hashOk)
    \/ \E p \in Procs, a \in ChainAnswers : Fallback(p, a)
    \/ \E p \in Procs, answer \in {"cached", "fail", "empty"} \cup DOMAIN metadata :
          Lookup(p, answer)
    \/ \E p \in Procs, outcome \in {"ok", "updateFails", "readFails"} : StatsWrite(p, outcome)
    \/ \E p \in Procs, a \in ChainAnswers : Chain(p, a, "k3x")
    \/ \E p \in Procs, outcome \in {"ok", "uploadFails", "urlFails"} : Upload(p, outcome)
    \/ \E p \in Procs, ok \in BOOLEAN : Store(p, ok)
    \/ \E p \in Procs, storeUp \in BOOLEAN : CreateAdd(p, storeUp)
    \/ \E p \in Procs, u \in Actors : FetchStart(p, u)
    \/ \E p \in Procs, ok \in BOOLEAN : FetchQuery(p, ok)
    \/ \E p \in Procs, quotaOk \in BOOLEAN : FetchStore(p, quotaOk)

SpecFallback == Init /\ [][NextFallback]_vars

-----------------------------------------------------------------------------
(* The guarded calls after a list fetch and a page reload: the access guard *)
(* answers from the memory tier or, the memory tier lost, from localStorage.*)

NextDenied ==
    \/ \E p \in Procs, u \in Users : FetchStart(p, u)
    \/ \E p \in Procs, ok \in BOOLEAN : FetchQuery(p, ok)
    \/ \E p \in Procs, quotaOk \in BOOLEAN : FetchStore(p, quotaOk)
    \/ \E u \in Users : Reload(u)
    \/ \E p \in Procs, u \in Users, url \in MainUrls : ResolveStart(p, u, url)
    \/ \E p \in Procs, u \in Users, url \in MainUrls : RegenerateStart(p, u, url)
    \/ \E p \in Procs, u \in Users, url \in MainUrls : TrackStart(p, u, url)
    \/ \E p \in Procs, answer \in {"cached", "fail", "empty"} \cup DOMAIN metadata :
          Lookup(p, answer)
    \/ \E p \in Procs, outcome \in {"ok", "updateFails", "readFails"} : StatsWrite(p, outcome)
    \/ \E p \in Procs, a \in ChainAnswers, r \in RandomSuffixes : Chain(p, a, r)
    \/ \E p \in Procs, outcome \in {"ok", "uploadFails", "urlFails"} : Upload(p, outcome)
    \/ \E p \in Procs, ok \in BOOLEAN : Store(p, ok)

SpecDenied == Init /\ [][NextDenied]_vars


-----------------------------------------------------------------------------
(* Claim C2: a resolve with skip=false is allowed if and only if the caller *)
(* owns, when the guard runs, a bookmark whose URL is the given URL, and    *)
(* otherwise fails with AccessDenied; a resolve with skip=true (bookmark    *)
(* creation) is always allowed.  A resolve past its guard was allowed.      *)
C2_AllowedIffOwned ==
    /\ \A p \in Procs :
          /\ procs[p].op = "resolve" => procs[p].owned
          /\ procs[p].op = "create" => procs[p].skip
    /\ ret.op = "resolve" => (ret.status = "AccessDenied" <=> ~ret.owned)
    /\ ret.op = "createBookmark" => ret.status # "AccessDenied"


Resolved ==
    /\ ret.op \in {"resolve", "createBookmark"}
    /\ ret.status \notin {"AccessDenied", "RateLimited"}

RegenerateStep ==
    \/ \E p \in Procs :
          /\ procs'[p] # procs[p]
          /\ procs[p].op = "regenerate" \/ procs'[p].op = "regenerate"
    \/ ret'.op = "regenerate"

RegenerateReturns == ret'.op = "regenerate" /\ ret'.status = "ok"

\* The records and blobs under canonical hashes are as they were
CanonicalKept ==
    /\ \A id \in DOMAIN metadata :
          metadata[id].urlHash = generateUrlHash(metadata[id].url) =>
              id \in DOMAIN metadata' /\ metadata'[id] = metadata[id]
    /\ \A url \in Urls :
          StoragePath(generateUrlHash(url)) \in DOMAIN blobs =>
              /\ StoragePath(generateUrlHash(url)) \in DOMAIN blobs'
              /\ blobs'[StoragePath(generateUrlHash(url))]
                    = blobs[StoragePath(generateUrlHash(url))]

AddedRecords == DOMAIN metadata' \ DOMAIN metadata

(* Claim C4, as stated: no step of a regenerate changes or deletes a record *)
(* or a blob under a canonical hash, and every regenerate that returns has  *)
(* added exactly one record, under a key that is not the canonical hash and *)
(* not the key of any earlier record.                                       *)
C4_RegenerateAlwaysAdds ==
    [][ RegenerateStep =>
          /\ CanonicalKept
          /\ RegenerateReturns =>
                \E id \in AddedRecords :
                   /\ AddedRecords = {id}
                   /\ metadata'[id].urlHash # generateUrlHash(metadata'[id].url)
                   /\ \A old \in DOMAIN metadata :
                         metadata[old].urlHash # metadata'[id].urlHash ]_vars

(* Claim C4, amended: no step of a regenerate changes or deletes a record   *)
(* or a blob under a canonical hash; a regenerate adds at most one record,  *)
(* and adds it exactly when it returns a freshly rendered screenshot that   *)
(* it has uploaded and recorded (a direct link, a failed upload or a failed *)
(* metadata write add none); the added record and its blob are under a key  *)
(* of the form hash_time_random, which is not the canonical hash.           *)
C4_RegenerateKeepsCanonical ==
    [][ RegenerateStep =>
          /\ CanonicalKept
          /\ Cardinality(AddedRecords) <= 1
          /\ AddedRecords # {} <=>
                (RegenerateReturns /\ ret'.result.method = "regenerated")
          /\ \A id \in AddedRecords :
                /\ metadata'[id].url = ret'.url
                /\ metadata'[id].type = "screenshot"
                /\ metadata'[id].urlHash # generateUrlHash(ret'.url)
                /\ \E r \in RandomSuffixes :
                      metadata'[id].urlHash = uniqueHash(generateUrlHash(ret'.url), now, r)
                /\ metadata'[id].storagePath = StoragePath(metadata'[id].urlHash)
                /\ metadata'[id].storagePath \in DOMAIN blobs
                /\ metadata'[id].storageUrl = ret'.result.thumbnail
                /\ ret'.uploads = 1 ]_vars

\* A regenerate has added its record beside the record of an ordinary
\* resolution of the same URL
C4_Witness ==
    /\ ret.op = "regenerate"
    /\ ret.result.method = "regenerated"
    /\ \E c, g \in DOMAIN metadata :
          /\ metadata[c].url = ret.url
          /\ metadata[c].urlHash = generateUrlHash(ret.url)
          /\ metadata[g].url = ret.url
          /\ metadata[g].storageUrl = ret.result.thumbnail
          /\ metadata[g].urlHash # metadata[c].urlHash
          /\ StoragePath(metadata[c].urlHash) \in DOMAIN blobs
          /\ StoragePath(metadata[g].urlHash) \in DOMAIN blobs


IsCanonical(id) == metadata[id].urlHash = generateUrlHash(metadata[id].url)

RegeneratedSources == {"regenerated-" \o takeScreenshot(o, 0).source : o \in RenderOutcomes}

C6_OneWritePerDay ==
    \A i, j \in 1..Len(statsWrites) :
       (i < j /\ statsWrites[i].id = statsWrites[j].id) =>
           statsWrites[j].t - statsWrites[i].t >= ACCESS_COOLDOWN


(* Claim C9: cleanup deletes a record only when no bookmark of any user     *)
(* references the record's URL.                                             *)
C9_DeletesOnlyUnreferenced ==
    \A d \in deleted : d.bookmarkedBy = {}

-----------------------------------------------------------------------------
\* A resolve, or the resolution inside a bookmark creation, that passed its
\* guard, found no record of the URL and got a screenshot from the render
\* service
FirstScreenshot ==
    /\ Resolved
    /\ ret.had = {}
    /\ ret.seen = {}
    /\ ret.renders = 1
    /\ ret.chain.type = "screenshot"

\* the records the returned call has added that are under the URL's hash,
\* refer to the returned blob reference and have their object in the Blob Store
NewRecords ==
    {id \in ret.added :
        /\ id \in DOMAIN metadata
        /\ metadata[id].urlHash = generateUrlHash(ret.url)
        /\ metadata[id].storageUrl = ret.result.thumbnail
        /\ metadata[id].storagePath \in DOMAIN blobs}

-----------------------------------------------------------------------------
(* Claim C12: a createBookmark or updateBookmark that has passed the rate   *)
(* limit, the validation and the ownership checks, and whose write the      *)
(* store accepts, succeeds whatever the thumbnail resolution gave: a        *)
(* resolution that found nothing costs at most the thumbnail.               *)
C12_WriteNotBlockedByThumbnail ==
    (ret.op \in {"createBookmark", "updateBookmark"} /\ ret.writeOk) =>
        ret.status = "ok"

-----------------------------------------------------------------------------
\* a call of the cache in which localStorage threw has just returned
FailedCall == ops' = ops + 1 /\ ret'.failed

(* Claim C13: a cache call in which the persistent tier throws (setItem     *)
(* over quota, an item that is no JSON, removeItem or Object.keys on        *)
(* storage that cannot be reached) returns all the same: it leaves the      *)
(* persistent tier as it was, a get returns absent, a set stores nothing    *)
(* and leaves the memory tier alone, remove and clear still take their      *)
(* keys out of the memory tier; and a memory get after it still returns     *)
(* what was last written there and has not expired.                         *)
C13_LocalFailuresSwallowed ==
    /\ [][FailedCall =>
            /\ localStorage' = localStorage
            /\ ret'.op \in {"setLocal", "getLocal", "remove", "clear"}
            /\ ret'.op = "getLocal" => ret'.value = Null /\ memoryCache' = memoryCache
            /\ ret'.op = "setLocal" => ret'.value = Null /\ memoryCache' = memoryCache
            /\ ret'.op = "remove" =>
                  memoryCache'[CacheUser] = Drop(memoryCache[CacheUser], ret'.key)
            /\ ret'.op = "clear" => memoryCache'[CacheUser] = EmptyMap]_vars
    /\ [](\A k \in CacheKeys :
            (<<"memory", k>> \in DOMAIN written
               /\ now <= written[<<"memory", k>>].t + written[<<"memory", k>>].ttl) =>
                  getMemoryData(memoryCache[CacheUser], k, now) = written[<<"memory", k>>].data)

\* a set over quota left the entry written before it in place, while the
\* memory tier holds an entry
C13_Witness ==
    /\ ret.op = "setLocal"
    /\ ret.failed
    /\ LocalKey(ret.key) \in DOMAIN localStorage[CacheUser]
    /\ memoryCache[CacheUser] # EmptyMap

-----------------------------------------------------------------------------
\* the bookmark list a tier of u's session holds, or Null
ListInMemory(u) ==
    IF BookmarksKey(u) \in DOMAIN memoryCache[u]
    THEN memoryCache[u][BookmarksKey(u)].data ELSE Null

ListInLocal(u) ==
    IF LocalParses(localStorage[u], BookmarksKey(u))
    THEN localStorage[u][LocalKey(BookmarksKey(u))].entry.data ELSE Null

\* u's bookmarks as the store holds them
StoredBookmarks(u) ==
    {convertFirestoreToBookmark(id) : id \in {i \in DOMAIN bookmarks : bookmarks[i].userId = u}}

(* Claim C14: when a create, an update or a delete of a bookmark has        *)
(* completed, the caller's cached bookmark list is in neither tier; and a   *)
(* list that is in a tier was fetched after the caller's last completed     *)
(* mutation, list fetches in flight during the mutation included: it holds  *)
(* the caller's bookmarks as the store has them.                            *)
C14_NoListFromBeforeMutation ==
    /\ (ret.op \in {"createBookmark", "updateBookmark", "deleteBookmark"}
            /\ ret.status = "ok") =>
          ListInMemory(ret.user) = Null /\ ListInLocal(ret.user) = Null
    /\ \A u \in Actors :
          /\ ListInMemory(u) # Null => ListInMemory(u).items = StoredBookmarks(u)
          /\ ListInLocal(u) # Null => ListInLocal(u).items = StoredBookmarks(u)

-----------------------------------------------------------------------------
\* what a thumbnail record is created with and keeps
Identity(data) ==
    [type |-> data.type, storageUrl |-> data.storageUrl,
     storagePath |-> data.storagePath, url |-> data.url, urlHash |-> data.urlHash,
     source |-> data.source, createdAt |-> data.createdAt,
     updatedAt |-> data.updatedAt, userId |-> data.userId]

(* Claim C15: in every step, a thumbnail record that exists before and      *)
(* after it keeps its kind, blob reference, blob path, URL, hash, source,   *)
(* owner and creation time; a record that changes in a step has its access  *)
(* count raised by one and its last-accessed time set, and the step is one  *)
(* that appends an access-stats write for that record.                      *)
C15_RecordImmutable ==
    [][\A id \in DOMAIN metadata \cap DOMAIN metadata' :
          /\ Identity(metadata'[id]) = Identity(metadata[id])
          /\ metadata'[id] # metadata[id] =>
                /\ metadata'[id].accessCount = metadata[id].accessCount + 1
                /\ Len(statsWrites') = Len(statsWrites) + 1
                /\ statsWrites'[Len(statsWrites')].id = id]_vars

\* a record has had its access statistics updated, while the store holds a
\* second record
C15_Witness ==
    \E id \in DOMAIN metadata :
        /\ metadata[id].accessCount = 2
        /\ metadata[id].type = "screenshot"
        /\ metadata[id].storagePath \in DOMAIN blobs
        /\ Cardinality(DOMAIN metadata) = 2

-----------------------------------------------------------------------------
\* the blob references of the records the returned call has not added itself
StoredBefore ==
    {metadata[id].storageUrl : id \in DOMAIN metadata \ ret.added}

(* Claim C16: a regenerate that passed its guard never runs the dedup       *)
(* lookup: it is only ever at the fallback chain, the upload or the         *)
(* metadata write, and when it returns it has sent exactly one render       *)
(* request, was given no stored record, and its result is not the blob      *)
(* reference of a record that was there before and not a dedup hit.         *)
C16_RegenerateBypassesDedup ==
    /\ \A p \in Procs :
          procs[p].op = "regenerate" =>
              /\ procs[p].pc \in {"chain", "upload", "store"}
              /\ procs[p].existing = Null
              /\ procs[p].seen = {}
    /\ (ret.op = "regenerate" /\ ret.status = "ok") =>
          /\ ret.renders = 1
          /\ ret.seen = {}
          /\ ret.result.method # "firebase-cache"
          /\ ret.result.thumbnail \notin StoredBefore

\* a regenerate has returned a fresh result while a screenshot record under
\* the URL's canonical hash is in the store and a resolve is being served it
C16_Witness ==
    /\ ret.op = "regenerate"
    /\ ret.status = "ok"
    /\ ret.renders = 1
    /\ \E id \in DOMAIN metadata \ ret.added :
          /\ metadata[id].urlHash = generateUrlHash(ret.url)
          /\ metadata[id].type = "screenshot"
    /\ \E q \in Procs :
          /\ procs[q].op = "resolve"
          /\ procs[q].pc = "stats"

-----------------------------------------------------------------------------
(* Claim C17: a resolution that begins while an unexpired thumbnail_{url}   *)
(* item for its URL is in the caller's browser storage is served from that  *)
(* item: no call that begins in such a state goes on to the Metadata Store  *)
(* lookup.                                                                  *)
BrowserCached(u, url) == getCachedThumbnail(localStorage[u], url, now) # NoThumbnail

C17_BrowserCacheServes ==
    [][\A p \in Procs :
          (/\ procs[p].pc = "idle"
           /\ procs'[p].op \in {"resolve", "create", "update"}
           /\ BrowserCached(procs'[p].user, procs'[p].url))
          => procs'[p].pc # "lookup"]_vars

-----------------------------------------------------------------------------
(* Claim C18: resolutions of one URL whose steps interleave can each miss   *)
(* the dedup lookup and each upload and record.  All of them write to the   *)
(* one path thumbnails/{hash}.jpg: every record under a canonical hash      *)
(* names that path, and every upload that succeeds leaves its own image at  *)
(* its path in place of whatever was there, and touches no other path (an  *)
(* upload that fails leaves the Blob Store as it was).  So                  *)
(* the records of the interleaved calls share one object, the one of the    *)
(* latest upload.                                                           *)
C18_SharedPathOverwritten ==
    /\ [](\A id \in DOMAIN metadata :
             /\ metadata[id].storagePath = StoragePath(metadata[id].urlHash)
             /\ IsCanonical(id) =>
                   metadata[id].storagePath
                      = "thumbnails/" \o generateUrlHash(metadata[id].url) \o ".jpg")
    /\ [][\A p \in Procs :
             (procs[p].pc = "upload" /\ procs'[p].pc # "upload") =>
                 \/ procs'[p].pc # "store" /\ blobs' = blobs
                 \/ /\ DOMAIN blobs' = DOMAIN blobs \cup {StoragePath(procs[p].key)}
                    /\ blobs'[StoragePath(procs[p].key)].image = procs[p].chain.thumbnail
                    /\ \A path \in DOMAIN blobs \ {StoragePath(procs[p].key)} :
                          blobs'[path] = blobs[path]]_vars

\* a resolve has returned that found no record at its lookup and made one,
\* while another record under the same canonical hash, not made by
\* regenerate, was written in between; the one object at the shared path is
\* the image of the call that returned, and the other record's blob
\* reference is not the reference of this object
C18_Witness ==
    /\ ret.op = "resolve"
    /\ ret.had = {}
    /\ ret.seen = {}
    /\ ret.uploads = 1
    /\ \E i, j \in DOMAIN metadata :
          /\ i # j
          /\ ret.added = {j}
          /\ metadata[i].urlHash = generateUrlHash(ret.url)
          /\ metadata[j].urlHash = generateUrlHash(ret.url)
          /\ metadata[i].source \notin RegeneratedSources
          /\ metadata[i].storagePath = metadata[j].storagePath
          /\ blobs[metadata[j].storagePath].image = ret.chain.thumbnail
          /\ metadata[j].storageUrl = getDownloadURL(metadata[j].storagePath,
                                                     blobs[metadata[j].storagePath])
          /\ metadata[i].storageUrl # metadata[j].storageUrl

-----------------------------------------------------------------------------
-----------------------------------------------------------------------------
\* the step in which a call of the operation by the user begins and reads
\* the cache
ReadBy(op, u) ==
    /\ ops' = ops + 1
    /\ \/ procs' = procs /\ ret'.op = op /\ ret'.user = u
       \/ \E p \in Procs :
             procs[p].pc = "idle" /\ procs'[p].op = op /\ procs'[p].user = u

MemoryHit(u, key) == getMemoryData(memoryCache[u], key, now) # Null
LocalHit(u, key) == getLocalData(localStorage[u], key, now) # Null

\* the readers of the cache and the key each reads first
Readers(u) == {<<"fetch", BookmarksKey(u)>>, <<"tags", TagsKey(u)>>,
               <<"track", BookmarksKey(u)>>}

(* Claim C20, as stated: every read of the cache that hits in the memory    *)
(* tier leaves the persistent tier untouched, and every read that misses    *)
(* in memory and hits in the persistent tier leaves the value in the memory *)
(* tier, where a read of the key in the state after it hits.                *)
C20_EveryReadBackfills ==
    [][\A u \in Users : \A r \in Readers(u) :
          ReadBy(r[1], u) =>
             /\ MemoryHit(u, r[2]) => localStorage'[u] = localStorage[u]
             /\ (~MemoryHit(u, r[2]) /\ LocalHit(u, r[2])) =>
                   getMemoryData(memoryCache'[u], r[2], now') # Null]_vars

(* Claim C20, amended: every read checks the memory tier first and leaves   *)
(* the persistent tier untouched on a memory hit.  A read by                *)
(* getCachedBookmarks or getAllTags that misses in memory and hits in the   *)
(* persistent tier returns the persistent value and writes it into the      *)
(* memory tier (the list with its dates made Dates again) with a new        *)
(* five-minute lifetime.  A read by the access guard that misses in memory  *)
(* and hits in the persistent tier answers from the persistent list and     *)
(* leaves the memory tier without the list.                                 *)
C20_ListAndTagReadsBackfill ==
    [][\A u \in Users :
          /\ \A r \in Readers(u) :
                (ReadBy(r[1], u) /\ MemoryHit(u, r[2])) => localStorage'[u] = localStorage[u]
          /\ (ReadBy("fetch", u) /\ ~MemoryHit(u, BookmarksKey(u))
                /\ LocalHit(u, BookmarksKey(u))) =>
                LET value == getLocalData(localStorage[u], BookmarksKey(u), now)
                IN  /\ BookmarksKey(u) \in DOMAIN memoryCache'[u]
                    /\ memoryCache'[u][BookmarksKey(u)]
                          = [data |-> List(value.items, "Date"), timestamp |-> now,
                             expires |-> now + CACHE_TTL]
                    /\ ret'.value = List(value.items, "Date")
          /\ (ReadBy("tags", u) /\ ~MemoryHit(u, TagsKey(u)) /\ LocalHit(u, TagsKey(u))) =>
                LET value == getLocalData(localStorage[u], TagsKey(u), now)
                IN  /\ TagsKey(u) \in DOMAIN memoryCache'[u]
                    /\ memoryCache'[u][TagsKey(u)]
                          = [data |-> value, timestamp |-> now, expires |-> now + CACHE_TTL]
                    /\ ret'.value = value
          /\ (ReadBy("track", u) /\ ~MemoryHit(u, BookmarksKey(u))
                /\ LocalHit(u, BookmarksKey(u))) =>
                LET value == getLocalData(localStorage[u], BookmarksKey(u), now)
                    goesOn == {p \in Procs : procs[p].pc = "idle" /\ procs'[p].op = "track"}
                    url == IF goesOn = {} THEN ret'.url
                           ELSE procs'[CHOOSE p \in goesOn : TRUE].url
                IN  /\ BookmarksKey(u) \notin DOMAIN memoryCache'[u]
                    /\ localStorage'[u] = localStorage[u]
                    /\ goesOn # {} <=> \E bookmark \in value.items : bookmark.url = url]_vars

\* getCachedBookmarks has just returned bob's list from the memory tier,
\* where an earlier read that hit in localStorage put it: the item in
\* localStorage has expired since and is still there, unread
C20_Witness ==
    /\ ret.op = "fetch"
    /\ ret.user = "bob"
    /\ ret.status = "ok"
    /\ ret.value.tag = "list"
    /\ MemoryHit("bob", BookmarksKey("bob"))
    /\ memoryCache["bob"][BookmarksKey("bob")].data = ret.value
    /\ LocalParses(localStorage["bob"], BookmarksKey("bob"))
    /\ Expired(localStorage["bob"][LocalKey(BookmarksKey("bob"))].entry, now)
    /\ memoryCache["bob"][BookmarksKey("bob")].timestamp
          > localStorage["bob"][LocalKey(BookmarksKey("bob"))].entry.timestamp

-----------------------------------------------------------------------------
\* the keys of the memory tier whose entry this step wrote
MemoryWritten(u) ==
    {k \in DOMAIN memoryCache'[u] :
        k \notin DOMAIN memoryCache[u] \/ memoryCache'[u][k] # memoryCache[u][k]}

\* the item of localStorage under the key is as it was
LocalItemKept(u, key) ==
    /\ LocalKey(key) \in DOMAIN localStorage'[u] <=> LocalKey(key) \in DOMAIN localStorage[u]
    /\ LocalKey(key) \in DOMAIN localStorage[u] =>
          localStorage'[u][LocalKey(key)] = localStorage[u][LocalKey(key)]

\* the item of localStorage under the key had expired and the read removed it
LocalItemSwept(u, key) ==
    /\ LocalParses(localStorage[u], key)
    /\ Expired(localStorage[u][LocalKey(key)].entry, now)
    /\ LocalKey(key) \notin DOMAIN localStorage'[u]

\* the key is in both tiers with the same value and the same expiry
InBothTiers(u, key) ==
    /\ key \in DOMAIN memoryCache'[u]
    /\ LocalParses(localStorage'[u], key)
    /\ localStorage'[u][LocalKey(key)].entry.data = memoryCache'[u][key].data
    /\ localStorage'[u][LocalKey(key)].entry.expires = memoryCache'[u][key].expires

\* the steps that call setMemory and setLocal for the key: the end of a
\* fetch from the store, and getAllTags when it has computed the tags
WritesBoth(u, k) ==
    \/ /\ k = BookmarksKey(u)
       /\ \E p \in Procs : /\ procs[p].pc \in {"fetchStore", "tagsQuery"}
                            /\ procs[p].user = u
                            /\ procs'[p].pc = "idle"
    \/ /\ k = TagsKey(u)
       /\ ret'.op = "tags"
       /\ ret'.user = u
       /\ "localOk" \in DOMAIN ret'
       /\ \/ ops' = ops + 1
          \/ \E p \in Procs : procs[p].pc = "tagsQuery" /\ procs'[p].pc = "idle"

(* Claim C21, as stated: every step that writes an entry of the memory tier *)
(* leaves the key in the persistent tier too, with the same value and the   *)
(* same expiry (the steps in which the persistent store refused the write   *)
(* apart).                                                                  *)
C21_EveryWriteInBothTiers ==
    [][\A u \in Users : \A k \in MemoryWritten(u) :
          ~(ret'.op \in {"fetch", "tags"} /\ ret'.status = "ok"
              /\ "localOk" \in DOMAIN ret' /\ ~ret'.localOk)
          => InBothTiers(u, k)]_vars

(* Claim C21, amended: only the list of bookmarks and the tags, when they   *)
(* were computed from the store or from the list, are written to both       *)
(* tiers: with a working persistent store the key is then in both tiers     *)
(* with the same expiry, the persistent value being the JSON form of the    *)
(* memory value; when the persistent store refuses, the item there stays as *)
(* it was (or is gone, when the read before had found it expired).  Every other write of the memory tier (a persistent hit copied   *)
(* into memory, a dedup lookup's answer, the access cooldown) leaves the    *)
(* persistent tier as it was, and localStorage never holds a dedup answer   *)
(* or a cooldown.                                                           *)
C21_ListAndTagsInBothTiers ==
    /\ [](\A u \in Users : \A item \in DOMAIN localStorage[u] :
             \/ item \in {LocalKey(BookmarksKey(u)), LocalKey(TagsKey(u))}
             \/ \E url \in Urls : item = ThumbKey(url))
    /\ [][\A u \in Users : \A k \in MemoryWritten(u) :
             IF WritesBoth(u, k)
             THEN /\ memoryCache'[u][k].expires = now + CACHE_TTL
                  /\ IF ret'.localOk
                     THEN /\ LocalParses(localStorage'[u], k)
                          /\ localStorage'[u][LocalKey(k)].entry
                                = [data |-> JsonRoundTrip(memoryCache'[u][k].data),
                                   timestamp |-> now, expires |-> now + CACHE_TTL]
                     ELSE LocalItemKept(u, k) \/ LocalItemSwept(u, k)
             ELSE LocalItemKept(u, k)]_vars

\* getCachedBookmarks has just written bob's list, fetched from the store,
\* to both tiers, while the memory tier also holds the answer of a dedup
\* lookup, which localStorage does not
C21_Witness ==
    /\ ret.op = "fetch"
    /\ "localOk" \in DOMAIN ret
    /\ ret.localOk
    /\ ret.user = "bob"
    /\ memoryCache["bob"][BookmarksKey("bob")].data = ret.value
    /\ LocalParses(localStorage["bob"], BookmarksKey("bob"))
    /\ localStorage["bob"][LocalKey(BookmarksKey("bob"))].entry.expires
          = memoryCache["bob"][BookmarksKey("bob")].expires
    /\ \E url \in MainUrls :
          /\ MetadataKey(generateUrlHash(url)) \in DOMAIN memoryCache["bob"]
          /\ LocalKey(MetadataKey(generateUrlHash(url))) \notin DOMAIN localStorage["bob"]

-----------------------------------------------------------------------------
(* Claim C22: the memory tier never holds more than MAX_MEMORY_SIZE entries *)
(* plus the entry being inserted, whatever the sequence of writes; a write  *)
(* made at capacity removes every expired entry and no unexpired one.       *)
C22_MemoryBounded ==
    /\ [](Cardinality(DOMAIN memoryCache[CacheUser]) <= MAX_MEMORY_SIZE + 1)
    /\ [][LET mc == memoryCache[CacheUser]
          IN  (ops' = ops + 1 /\ Cardinality(DOMAIN mc) >= MAX_MEMORY_SIZE) =>
                 /\ \A k \in DOMAIN mc :
                       Expired(mc[k], now) <=> k \notin DOMAIN memoryCache'[CacheUser]
                 /\ \A k \in DOMAIN mc \cap DOMAIN memoryCache'[CacheUser] :
                       memoryCache'[CacheUser][k] = mc[k]]_vars

-----------------------------------------------------------------------------
(* Claim C23, as stated: a resolution that finds a screenshot record under  *)
(* the URL's hash in the store when it looks returns it and makes no render *)
(* request, and a resolution is never served from a record of another kind. *)
C23_ScreenshotRecordAlwaysServed ==
    /\ (/\ ret.op = "resolve"
        /\ ret.status = "ok"
        /\ \E id \in DOMAIN metadata :
              metadata[id].type = "screenshot" /\ metadata[id].storageUrl \in ret.had)
       => (ret.renders = 0 /\ ret.result.method = "firebase-cache")
    /\ (ret.op = "resolve" /\ ret.status = "ok" /\ ret.result.method = "firebase-cache")
       => ret.result.type = "screenshot"

(* Claim C23, amended: what decides is the record the dedup lookup returns, *)
(* the first document of the query or the one in the memory cache.  A       *)
(* resolution is at the access-stats step only with a screenshot record,    *)
(* and past the lookup towards the render only when the lookup returned     *)
(* nothing or a record of another kind; a resolution returns a stored       *)
(* reference exactly when it made no render request, and that reference is  *)
(* of kind screenshot.                                                      *)
C23_DedupOnlyByScreenshot ==
    /\ \A p \in Procs :
          procs[p].op = "resolve" =>
             /\ procs[p].pc = "stats" =>
                   (procs[p].existing.tag = "thumbnail"
                      /\ procs[p].existing.rec.type = "screenshot")
             /\ procs[p].pc \in {"chain", "upload", "store"} =>
                   (procs[p].existing.tag = "thumbnail"
                      => procs[p].existing.rec.type # "screenshot")
    /\ (ret.op = "resolve" /\ ret.status = "ok") =>
          /\ ret.result.method = "firebase-cache" <=> ret.renders = 0
          /\ ret.result.method = "firebase-cache" =>
                (ret.result.type = "screenshot" /\ ret.result.thumbnail \in ret.seen)

\* a resolve whose lookup was given the one record there was, the favicon
\* record, has rendered, uploaded and recorded a screenshot
C23_Witness ==
    /\ ret.op = "resolve"
    /\ ret.status = "ok"
    /\ ret.had = {getFaviconUrl(ret.url)}
    /\ ret.seen = ret.had
    /\ ret.renders = 1
    /\ ret.added # {}
    /\ ret.result.type = "screenshot"

-----------------------------------------------------------------------------
\* the step in which the call leaves updateAccessStats without the record
\* having been written
StatsWriteFailed(p) ==
    /\ procs[p].pc = "stats"
    /\ procs'[p].pc # "stats"
    /\ metadata' = metadata

(* Claim C24: when the access-stats write of a dedup hit fails, the call    *)
(* goes on as after a write that succeeded: generateThumbnail returns the   *)
(* stored record's blob reference (to its caller, or to createBookmark and  *)
(* updateBookmark, which go on to their own write), and trackThumbnailAccess *)
(* returns; trackThumbnailAccess never ends in an error.                    *)
C24_StatsFailureSwallowed ==
    /\ [](ret.op = "track" => ret.status \in {"ok", "NoAccess"})
    /\ [][\A p \in Procs :
             StatsWriteFailed(p) =>
                LET me == procs[p]
                    stored == me.existing.rec.storageUrl
                IN  CASE me.op = "track" ->
                            /\ ret'.op = "track" /\ ret'.status = "ok"
                            /\ procs'[p].pc = "idle"
                      [] me.op = "resolve" ->
                            /\ ret'.op = "resolve" /\ ret'.status = "ok"
                            /\ ret'.result.thumbnail = stored
                            /\ ret'.result.method = "firebase-cache"
                            /\ ret'.renders = 0
                            /\ procs'[p].pc = "idle"
                      [] OTHER ->
                            /\ procs'[p].pc \in {"addBookmark", "updateDoc"}
                            /\ procs'[p].thumbnailData.thumbnail = stored]_vars

\* a resolve has returned a stored blob reference although no access-stats
\* write has ever succeeded: the write of its dedup hit failed
C24_Witness ==
    /\ ret.op = "resolve"
    /\ ret.status = "ok"
    /\ ret.result.method = "firebase-cache"
    /\ ret.result.thumbnail \in ret.seen
    /\ statsWrites = <<>>
    /\ \E id \in DOMAIN metadata :
          /\ metadata[id].storageUrl = ret.result.thumbnail
          /\ metadata[id].accessCount = 1

-----------------------------------------------------------------------------
\* the results thumbnailService.generateThumbnail can give a call by itself
DirectResults(pr) ==
    {RunChain(pr, a, renderCalls + 1).chain : a \in {b \in ChainAnswers : Asked(pr.url, b)}}

-----------------------------------------------------------------------------
\* u's memory tier holds an unexpired negative result for url's hash
NegativeCached(u, url) ==
    LET key == MetadataKey(generateUrlHash(url))
    IN  /\ key \in DOMAIN memoryCache[u]
        /\ memoryCache[u][key].data = Null
        /\ ~(now > memoryCache[u][key].expires)

\* C26: a lookup of a hash whose negative result is in the memory tier and
\* not yet expired does not query the Metadata Store: it finds no record
\* and leaves the cached entry as it is
C26_NegativeResultCached ==
    [][\A p \in Procs :
         (/\ procs[p].pc = "lookup"
          /\ procs'[p].pc # "lookup"
          /\ NegativeCached(procs[p].user, procs[p].url)) =>
             LET u == procs[p].user
                 key == MetadataKey(generateUrlHash(procs[p].url))
             IN  /\ memoryCache'[u][key] = memoryCache[u][key]
                 /\ procs'[p].pc \in {"chain", "idle"}
                 /\ procs'[p].pc = "chain" => procs'[p].seen = {}
                 /\ procs'[p].pc = "idle" => ret'.seen = {}]_vars

-----------------------------------------------------------------------------
\* C27: a resolve or regenerate that ends in AccessDenied made no render
\* request, no upload, no Metadata Store write and no stats update, and wrote
\* no entry in either cache tier (its guard's read may drop an expired one)
C27_DeniedHasNoEffect ==
    [][(ret'.op \in {"resolve", "regenerate"} /\ ret'.status = "AccessDenied") =>
         /\ renderCalls' = renderCalls /\ blobs' = blobs
         /\ metadata' = metadata /\ statsWrites' = statsWrites
         /\ bookmarks' = bookmarks /\ procs' = procs
         /\ ret'.renders = 0 /\ ret'.uploads = 0 /\ ret'.added = {}
         /\ ret'.result = NoResult
         /\ \A u \in Users :
              /\ \A k \in DOMAIN memoryCache'[u] :
                   k \in DOMAIN memoryCache[u] /\ memoryCache'[u][k] = memoryCache[u][k]
              /\ \A k \in DOMAIN localStorage'[u] :
                   k \in DOMAIN localStorage[u] /\ localStorage'[u][k] = localStorage[u][k]]_vars

\* a regenerate was denied on the list kept in localStorage, the memory tier
\* being empty after a reload
C27_Witness ==
    /\ ret.op = "regenerate" /\ ret.status = "AccessDenied"
    /\ memoryCache[ret.user] = EmptyMap
    /\ LocalKey(BookmarksKey(ret.user)) \in DOMAIN localStorage[ret.user]

-----------------------------------------------------------------------------
\* the calls of key k so far
CallsOf(log, k) == IF k \in DOMAIN log THEN Len(log[k]) ELSE 0

\* C28: a denied isAllowed call leaves the recorded attempts as they were,
\* a call or reset on one key leaves every other key's attempts as they
\* were, and a key that holds its full number of attempts is allowed again
\* exactly from the moment the oldest of them is a whole window old
C28_DeniedCallsNotRecorded ==
    /\ [](\A k \in DOMAIN attempts :
            /\ Len(attempts[k]) <= LimitOf(k)
            /\ isAllowed(attempts, k, LimitOf(k), WindowOf(k), now) <=>
                 \/ Len(attempts[k]) < LimitOf(k)
                 \/ attempts[k][1] + WindowOf(k) <= now)
    /\ [][\A k \in DOMAIN rateLog' :
            CallsOf(rateLog', k) > CallsOf(rateLog, k) =>
              /\ ~rateLog'[k][Len(rateLog'[k])].ok => attempts' = attempts
              /\ \A other \in (DOMAIN attempts \cup DOMAIN attempts') \ {k} :
                   /\ other \in DOMAIN attempts /\ other \in DOMAIN attempts'
                   /\ attempts'[other] = attempts[other]]_vars
    /\ [][\A k \in DOMAIN rateLog \ DOMAIN rateLog' :
            \A other \in DOMAIN attempts \ {k} :
              other \in DOMAIN attempts' /\ attempts'[other] = attempts[other]]_vars

\* five calls passed at once, the sixth and a seventh half a window later
\* were denied, and the call made one window after the first passed, while
\* the other key had recorded attempts of its own
C28_Witness ==
    /\ "login" \in DOMAIN rateLog
    /\ CreateKey("alice") \in DOMAIN attempts
    /\ LET log == rateLog["login"]
       IN  /\ Len(log) = DEFAULT_MAX_ATTEMPTS + 3
           /\ ~log[DEFAULT_MAX_ATTEMPTS + 1].ok /\ ~log[DEFAULT_MAX_ATTEMPTS + 2].ok
           /\ log[DEFAULT_MAX_ATTEMPTS + 1].t = log[1].t
           /\ log[DEFAULT_MAX_ATTEMPTS + 2].t > log[1].t
           /\ log[DEFAULT_MAX_ATTEMPTS + 3].ok
           /\ log[DEFAULT_MAX_ATTEMPTS + 3].t = log[1].t + DEFAULT_WINDOW

-----------------------------------------------------------------------------
\* the records regenerate wrote
Regenerated == {id \in DOMAIN metadata : metadata[id].source \in RegeneratedSources}

\* C29: the lookup of a resolution or of an access tracking never returns a
\* record written by regenerate: the record a call holds after its lookup is
\* under the canonical hash of its URL, and what a resolution has seen and
\* what it returns is not the blob reference of a regenerated record
C29_RegeneratedNeverServed ==
    /\ \A p \in Procs :
         (procs[p].op \in {"resolve", "track"} /\ procs[p].existing.tag = "thumbnail") =>
            /\ procs[p].existing.rec.urlHash = generateUrlHash(procs[p].url)
            /\ procs[p].existing.rec.source \notin RegeneratedSources
    /\ (ret.op = "resolve" /\ ret.status = "ok") =>
         \A id \in Regenerated :
            /\ metadata[id].urlHash # generateUrlHash(metadata[id].url)
            /\ metadata[id].storageUrl # ret.result.thumbnail
            /\ metadata[id].storageUrl \notin ret.seen

\* bob regenerated the thumbnail and alice's resolution of the same URL, with
\* no other record in the store, rendered, uploaded and recorded its own
C29_Witness ==
    /\ ret.op = "resolve" /\ ret.status = "ok" /\ ret.user = "alice"
    /\ ret.renders = 1 /\ ret.seen = {} /\ ret.added # {}
    /\ \E id \in Regenerated :
         /\ metadata[id].url = ret.url /\ metadata[id].userId = "bob"
         /\ DOMAIN metadata = {id} \cup ret.added

-----------------------------------------------------------------------------
\* u's memory tier holds an unexpired cooldown entry
InCooldown(u) ==
    \E k \in DOMAIN memoryCache[u] :
       memoryCache[u][k].data.tag = "number" /\ ~Expired(memoryCache[u][k], now)

\* C30: the cooldown entry of a record is written only by a stats write
\* that succeeded: every entry in a memory tier was set at a recorded write
\* of that user to that record, a stats step that leaves the record as it
\* was leaves the memory tier as it was, and a lookup that returns a stored
\* reference at once, without the stats step, found an unexpired entry
C30_CooldownOnlyAfterWrite ==
    /\ [](\A u \in Users, id \in DOMAIN metadata \cup deleted :
            AccessKey(id) \in DOMAIN memoryCache[u] =>
               \E i \in 1..Len(statsWrites) :
                  /\ statsWrites[i].id = id /\ statsWrites[i].user = u
                  /\ memoryCache[u][AccessKey(id)].expires
                        = statsWrites[i].t + ACCESS_COOLDOWN)
    /\ [][\A p \in Procs :
            StatsWriteFailed(p) => memoryCache' = memoryCache]_vars
    /\ [][\A p \in Procs :
            (/\ procs[p].pc = "lookup" /\ procs'[p].pc = "idle"
             /\ ret'.op = "resolve" /\ ret'.user = procs[p].user
             /\ ret'.result.method = "firebase-cache") => InCooldown(procs[p].user)]_vars
    /\ [][\A p \in Procs :
            (procs[p].pc = "lookup" /\ procs[p].op = "track" /\ procs'[p].pc = "idle"
             /\ ret'.seen # {}) => InCooldown(procs[p].user)]_vars

\* a resolve was served the stored reference although no stats write has
\* succeeded, and its user's memory tier holds no cooldown entry: the next
\* lookup that finds the record goes to the stats write
C30_Witness ==
    /\ ret.op = "resolve" /\ ret.status = "ok" /\ ret.result.method = "firebase-cache"
    /\ statsWrites = <<>>
    /\ \A id \in DOMAIN metadata : AccessKey(id) \notin DOMAIN memoryCache[ret.user]
    /\ \E id \in DOMAIN metadata : metadata[id].storageUrl = ret.result.thumbnail

=============================================================================
